---- MODULE Spec2Model ----
(***************************************************************************)
(* State-machine model of the opportunity-to-execution pipeline:           *)
(*   ArbitrageEngine        (src/src/services/MetricsService.ts)           *)
(*   TradeExecutionService  (src/src/services/MCPService.ts)               *)
(*   WalletService          (src/src/services/WalletService.ts)            *)
(*   DatabaseService        (src/src/services/DatabaseService.ts)          *)
(*                                                                         *)
(* The program is single-threaded JavaScript: the code between two awaits  *)
(* that wait for I/O or a timer runs atomically, so one action models one  *)
(* such segment (a handler from the completion it resumes on up to the     *)
(* next await that leaves the event-loop turn).  Each price-update handler *)
(* carries one opportunity; the trade it creates has the handler's id.     *)
(***************************************************************************)
EXTENDS Integers, Sequences, FiniteSets, TLC

\* ---------------------------------------------------------------- bounds
NumTrades == 2          \* price-update handlers (one opportunity each) that can overlap
MaxConfigTrades == 2    \* largest configured MAX_CONCURRENT_TRADES explored
NumBlockHandlers == 1   \* handleNewBlock invocations that can be in progress at once
MaxLossUpdates == 2     \* updateDailyLoss calls explored between two daily resets

\* ------------------------------------------------------------- constants
nonceOffset == 0        \* WalletConfig.nonceOffset
NoNonce == -1           \* nonceCache has no entry for the wallet address

Trades == 1..NumTrades
Legs == {"buy", "sell"}
Hashes == Trades \X Legs            \* the transaction of leg l of trade t
Pairs == {<<"ETH", "USDC">>, <<"AVAX", "USDC">>}
NoPair == <<"", "">>
NoHash == <<0, "none">>
BlockHandlers == 1..NumBlockHandlers

\* The fields of an ArbitrageOpportunity that the risk gate and the engine
\* read: the pair, optimalTradeSize (USD), the spread between the two venues
\* (percent of the buy price), gasEstimate.totalCost as a percentage of
\* expectedProfit.usd, and expectedProfit.usd.
Opportunity ==
  [tokenPair : Pairs, optimalTradeSize : {500, 2000, 6000, 12000},
   priceChangePct : {2, 8}, gasCostPct : {10, 40, 60}, profitUsd : {100, 20000}]
NoOpportunity ==
  [tokenPair |-> NoPair, optimalTradeSize |-> 0, priceChangePct |-> 0,
   gasCostPct |-> 0, profitUsd |-> 0]

\* The opportunities the price-update handlers of the pipeline are given: a
\* small one and one above the default position limit, on either pair.
Offered ==
  {o \in Opportunity : /\ o.optimalTradeSize \in {2000, 6000}
                       /\ o.priceChangePct = 2 /\ o.gasCostPct = 10 /\ o.profitUsd = 100}

\* RiskManagementService.riskLimits with the defaults of its constructor
\* (USD; maxSlippage in tenths of a percent, correlationThreshold in tenths).
DefaultRiskLimits ==
  [maxPositionSize |-> 5000, maxDailyLoss |-> 1000, correlationThreshold |-> 8,
   volatilityThreshold |-> 50, minLiquidity |-> 10000, maxSlippage |-> 20]

\* The checks validateTrade (TradeExecutionService) makes before its first
\* await, by the code of the ValidationError each throws.
FieldDefects == {"INVALID_TOKEN_PAIR", "INVALID_EXCHANGES", "INACTIVE_EXCHANGE", "INVALID_TRADE_SIZE"}
NoEval == [opportunity |-> NoOpportunity, dailyLoss |-> 0, decision |-> "none"]

\* What the services hold before their first call.
NoAdvice == [observed |-> 0, congestion |-> 0, gasPrice |-> 0, gasLimit |-> 0, fromCache |-> FALSE]
NoGasPrice == [amount |-> 0, unit |-> "none"]
NoTxGasPrice == [prepared |-> NoGasPrice, submitted |-> NoGasPrice]
NoProtection == [called |-> FALSE]
NoCancellation == [called |-> FALSE]
NoAssessment == [source |-> "none", riskScore |-> 0]
NoDetection == [called |-> FALSE]

\* NotificationService: the priorities, the two callers of
\* processNotificationQueue (the interval timer and cleanup), and an
\* invocation that is not in progress.
Priorities == {"critical", "medium"}
Invocations == {"timer", "cleanup"}
NoInvocation == [pc |-> "idle", idx |-> 0]

\* PriceMonitoringService: the start() calls that can be in progress at once.
NumStartCalls == 2
StartCalls == 1..NumStartCalls

VARIABLES
  maxConcurrentTrades,  \* ArbitrageEngine.maxConcurrentTrades (read from the environment)
  pc,                   \* position of handler / coordinator t
  leg,                  \* leg the coordinator of t is working on
  trade,                \* the Trade object shared by engine and coordinator
  engActive,            \* ArbitrageEngine.activeTrades (keys)
  tesActive,            \* TradeExecutionService.activeTrades (keys)
  tesPending,           \* TradeExecutionService.pendingTransactions: hash -> status
  nonceCache,           \* WalletService.nonceCache entry of the wallet address
  txNonce,              \* nonce placed on the transaction of each hash
  chain,                \* what the network knows about each hash
  wOrder,               \* WalletService.pendingTransactions, in insertion order
  wStatus,              \* status field of the wallet's Transaction objects
  db,                   \* trades table: the row last written by saveTrade
  notifs,               \* notifications delivered per trade
  result,               \* what executeArbitrageTrade gave its caller
  cancelResult,         \* value returned by the last cancelTrade call
  cancelRequests,       \* hashes cancelTrade has passed to walletService.cancelTransaction
  bpc,                  \* position of each handleNewBlock invocation
  bcur,                 \* hash whose receipt the invocation is working on
  bseen,                \* hashes the invocation's loop has already visited
  emitted,              \* terminal events the wallet has emitted for each hash
  opportunity,          \* the ArbitrageOpportunity each price-update handler carries
  riskLimits,           \* RiskManagementService.riskLimits
  dailyLoss,            \* RiskManagementService.dailyLoss
  lossUpdates,          \* updateDailyLoss calls since the last reset
  lastEval,             \* the latest RiskManagementService.validateTrade call and its answer
  calls,                \* collaborators the coordinator of t has called, in order
  gasPriceHistory,      \* GasOptimizationService.gasPriceHistory: last price of the network, gwei
  networkCongestion,    \* GasOptimizationService.networkCongestion of the network, percent
  gasLimitCache,        \* GasOptimizationService.gasLimitCache entry of the pair (0: none)
  gasAdvice,            \* the latest optimizeForTrade call and its answer
  txGasPrice,           \* gas price of the latest leg: as prepared and as submitted
  mevResult,            \* the latest applyProtection call and its answer
  cancellation,         \* the latest WalletService.cancelTransaction call and its effect
  mcpAssessment,        \* the latest MCPService.assessRisk answer
  detection,            \* the latest MCPService.detectOpportunities call and its outcome
  prices,               \* the price update the pass was started with, pair by pair
  profitable,           \* handlePriceUpdate: profitableOpportunities of the pass
  queue,                \* executeHighPriorityTrades: what its loop has still to visit
  passPc,               \* position of the pass
  passActive,           \* ArbitrageEngine.activeTrades during the pass (pairs)
  admitted,             \* trades created by the pass, in order
  opportunitiesMissed,  \* MetricsService.tradeMetrics.opportunitiesMissed
  ttlPassed,            \* the opportunities of the pass are older than their time to live
  isRunning,            \* ArbitrageEngine.isRunning
  enginePc,             \* position of the engine's start() or stop() call
  nKeys,                \* NotificationService.notificationQueue: its keys, in insertion order
  nQueue,               \* notificationQueue: the notifications queued under each priority
  nSent,                \* notifications passed to sendNotification, in order
  nQueued,              \* notifications queued so far
  nProc,                \* position of each processNotificationQueue invocation
  nTimer,               \* NotificationService.processingInterval is installed
  pmRunning,            \* PriceMonitoringService.isRunning
  pmInterval,           \* PriceMonitoringService.updateInterval (0: null)
  pmTimers,             \* the interval timers installed and not cleared
  pmStart,              \* position of each start() call of the price monitor
  pmLastTick            \* the timer whose callback ran last (0: none)

engineVars == <<maxConcurrentTrades, engActive>>
coordVars == <<pc, leg, trade, tesActive, tesPending, result>>
walletVars == <<nonceCache, txNonce, chain, wOrder, wStatus>>
storeVars == <<db, notifs>>
cancelVars == <<cancelResult, cancelRequests>>
blockVars == <<bpc, bcur, bseen, emitted>>
riskVars == <<riskLimits, dailyLoss, lossUpdates, lastEval>>
gasVars == <<gasPriceHistory, networkCongestion, gasLimitCache, gasAdvice, txGasPrice>>
mevVars == <<mevResult>>
cancelTxVars == <<cancellation>>
mcpVars == <<mcpAssessment, detection>>
passVars == <<prices, profitable, queue, passPc, passActive, admitted, opportunitiesMissed, ttlPassed>>
lifecycleVars == <<isRunning, enginePc>>
notifyVars == <<nKeys, nQueue, nSent, nQueued, nProc, nTimer>>
monitorVars == <<pmRunning, pmInterval, pmTimers, pmStart, pmLastTick>>
serviceVars == <<lifecycleVars, notifyVars, monitorVars>>
adviceVars == <<gasVars, mevVars, cancelTxVars, mcpVars, passVars, serviceVars>>
pipelineVars == <<engineVars, coordVars, walletVars, storeVars, cancelVars, blockVars,
                  opportunity, riskVars, calls>>
vars == <<pipelineVars, adviceVars>>

\* The state after construction, the risk limits and the block handlers
\* apart.
InitCore ==
  /\ maxConcurrentTrades \in 1..MaxConfigTrades
  /\ pc = [t \in Trades |-> "idle"]
  /\ leg = [t \in Trades |-> "none"]
  /\ trade = [t \in Trades |-> [tokenPair |-> NoPair, status |-> "none", error |-> "none",
                                buyTransaction |-> NoHash, transactionHash |-> <<>>,
                                tradeSize |-> 0, actualProfit |-> 0]]
  /\ engActive = {}
  /\ tesActive = {}
  /\ tesPending = [h \in Hashes |-> "absent"]
  /\ nonceCache = NoNonce
  /\ txNonce = [h \in Hashes |-> NoNonce]
  /\ chain = [h \in Hashes |-> "unsent"]
  /\ wOrder = <<>>
  /\ wStatus = [h \in Hashes |-> "absent"]
  /\ db = [t \in Trades |-> [status |-> "none", buy_transaction_hash |-> NoHash]]
  /\ notifs = [t \in Trades |-> [critical |-> 0, failure |-> 0, success |-> 0]]
  /\ result = [t \in Trades |-> "none"]
  /\ cancelResult = [t \in Trades |-> "none"]
  /\ cancelRequests = {}
  /\ emitted = [h \in Hashes |-> 0]
  /\ opportunity = [t \in Trades |-> NoOpportunity]
  /\ dailyLoss = 0
  /\ lossUpdates = 0
  /\ lastEval = NoEval
  /\ calls = [t \in Trades |-> <<>>]
  /\ gasPriceHistory = 20
  /\ networkCongestion = 50
  /\ gasLimitCache = 0
  /\ gasAdvice = NoAdvice
  /\ txGasPrice = NoTxGasPrice
  /\ mevResult = NoProtection
  /\ cancellation = NoCancellation
  /\ mcpAssessment = NoAssessment
  /\ detection = NoDetection
  /\ prices = <<>>
  /\ profitable = <<>>
  /\ queue = <<>>
  /\ passPc = "idle"
  /\ passActive = {}
  /\ admitted = <<>>
  /\ opportunitiesMissed = 0
  /\ ttlPassed = FALSE
  /\ isRunning = FALSE
  /\ enginePc = "idle"
  /\ nKeys = <<>>
  /\ nQueue = [p \in Priorities |-> <<>>]
  /\ nSent = <<>>
  /\ nQueued = 0
  /\ nProc = [i \in Invocations |-> NoInvocation]
  /\ nTimer = FALSE
  /\ pmRunning = FALSE
  /\ pmInterval = 0
  /\ pmTimers = {}
  /\ pmStart = [c \in StartCalls |-> "idle"]
  /\ pmLastTick = 0

\* No handleNewBlock invocation is in progress.
InitBlockHandlers(handlers) ==
  /\ bpc = [b \in handlers |-> "idle"]
  /\ bcur = [b \in handlers |-> NoHash]
  /\ bseen = [b \in handlers |-> {}]

\* The state after construction, the risk limits apart.
InitServices == InitCore /\ InitBlockHandlers(BlockHandlers)

Init ==
  /\ InitServices
  /\ riskLimits = DefaultRiskLimits

\* The risk limits read from the environment (MAX_POSITION_SIZE,
\* VOLATILITY_THRESHOLD): the defaults, a larger position limit, a lower
\* volatility threshold.
RiskLimitChoices ==
  {[DefaultRiskLimits EXCEPT !.maxPositionSize = m, !.volatilityThreshold = v] :
     m \in {5000, 20000}, v \in {50, 20}}

InitRisk ==
  /\ InitServices
  /\ riskLimits \in RiskLimitChoices

\* ------------------------------------------------------------- helpers
Hash(t, l) == <<t, l>>

\* provider.getTransactionCount(address, 'pending'): the next nonce the network
\* expects, counting the transactions it has mined and those it holds pending.
Mined == {h \in Hashes : chain[h] \in {"success", "reverted"}}
InMempool == {h \in Hashes : chain[h] = "mempool"}
NetworkNonce ==
  CHOOSE n \in 0..(2 * NumTrades) :
    /\ n >= Cardinality(Mined)
    /\ \A h \in InMempool : txNonce[h] # n
    /\ \A m \in Cardinality(Mined)..(n - 1) : \E h \in InMempool : txNonce[h] = m

\* DatabaseService.saveTrade: the row written for a Trade object.
TradeRow(tr) ==
  [status |-> tr.status, buy_transaction_hash |-> tr.buyTransaction]

\* TradeExecutionService.validateTrade / ArbitrageEngine.shouldExecuteTrade:
\* "already trading this pair" compares the base token of the active trades.
ActivePairTrades(active, pair) ==
  {a \in active : trade[a].tokenPair[1] = pair[1]}

\* ------------------------------------------- RiskManagementService
\* Severities are in tenths, the composite in thousandths, money in USD.
Min(a, b) == IF a <= b THEN a ELSE b

\* volatilityCache.get(token) || 25: initializeVolatilityCache stores 25 for
\* every supported token and nothing else ever writes the cache.
defaultVolatility == 25
\* getExchangeLiquidity returns the same figure for every exchange.
getExchangeLiquidity == 100000
\* calculateExpectedSlippage, in tenths of a percent (0.5%).
calculateExpectedSlippage == 5
\* estimateExecutionTime, in milliseconds.
estimateExecutionTime == 15000
regulatedTokens == {"USDC", "USDT", "DAI"}

\* assessMarketRisk: volatility above the threshold, a spread above 5%;
\* getMarketConditions always answers 'neutral'.
assessMarketRisk(o, limits) ==
  Min(10, (IF defaultVolatility > limits.volatilityThreshold THEN 4 ELSE 0)
          + (IF o.priceChangePct > 5 THEN 3 ELSE 0))

\* assessLiquidityRisk: the trade size against 10% of minLiquidity and against
\* 5% of the liquidity of the buy and of the sell exchange.
assessLiquidityRisk(o, limits) ==
  Min(10, (IF o.optimalTradeSize * 10 > limits.minLiquidity THEN 4 ELSE 0)
          + (IF o.optimalTradeSize * 100 > getExchangeLiquidity * 5 THEN 3 ELSE 0)
          + (IF o.optimalTradeSize * 100 > getExchangeLiquidity * 5 THEN 3 ELSE 0))

\* assessExecutionRisk: gas above 30% of the profit, slippage above the
\* limit, execution expected to take more than 30 seconds.
assessExecutionRisk(o, limits) ==
  Min(10, (IF o.gasCostPct > 30 THEN 4 ELSE 0)
          + (IF calculateExpectedSlippage > limits.maxSlippage THEN 3 ELSE 0)
          + (IF estimateExecutionTime > 30000 THEN 3 ELSE 0))

\* assessRegulatoryRisk: a regulated stablecoin in the pair, a profit above
\* $10,000; getTradingJurisdiction always answers 'unrestricted'.
assessRegulatoryRisk(o) ==
  Min(10, (IF o.tokenPair[1] \in regulatedTokens \/ o.tokenPair[2] \in regulatedTokens
             THEN 2 ELSE 0)
          + (IF o.profitUsd > 10000 THEN 3 ELSE 0))

\* performRiskAssessment: overallRisk, the weighted sum of the four severities.
overallRisk(o, limits) ==
  assessMarketRisk(o, limits) * 30 + assessLiquidityRisk(o, limits) * 25
    + assessExecutionRisk(o, limits) * 25 + assessRegulatoryRisk(o) * 20

\* The severities for which the sum, computed in IEEE doubles in the code's
\* order of addition, lands one ulp above the exact value at a threshold:
\* 0*0.3 + 0.4*0.25 + 0.4*0.25 + 0.5*0.2 = 0.30000000000000004.
RoundsAbove == {<<0, 4, 4, 5>>}

\* performRiskAssessment: riskLevel from overallRisk (<= 0.3, <= 0.6, <= 0.8).
riskLevel(o, limits) ==
  LET above == <<assessMarketRisk(o, limits), assessLiquidityRisk(o, limits),
                 assessExecutionRisk(o, limits), assessRegulatoryRisk(o)>> \in RoundsAbove
      r == overallRisk(o, limits)
  IN IF r < 300 \/ (r = 300 /\ ~above) THEN "low"
     ELSE IF r < 600 \/ (r = 600 /\ ~above) THEN "medium"
     ELSE IF r < 800 \/ (r = 800 /\ ~above) THEN "high"
     ELSE "critical"

\* checkDailyLossLimit: the ceiling not reached, and not exceeded by adding
\* 10% of the trade size.
checkDailyLossLimit(o, limits, loss) ==
  /\ ~(loss >= limits.maxDailyLoss)
  /\ ~(loss * 10 + o.optimalTradeSize > limits.maxDailyLoss * 10)

checkPositionSizeLimit(o, limits) == o.optimalTradeSize <= limits.maxPositionSize

\* checkCorrelationLimit: positionCorrelations.get(pairKey) || 0 against the
\* threshold (tenths); nothing ever writes positionCorrelations.
checkCorrelationLimit(o, limits) == 0 <= limits.correlationThreshold

checkLiquidityRequirement(o, limits) ==
  Min(getExchangeLiquidity, getExchangeLiquidity) >= limits.minLiquidity

\* Mutant of validateTrade: a high risk level is let through (only critical
\* is refused).
validateTrade_HighPasses(o, limits, loss, dbOk) ==
  IF ~dbOk THEN FALSE
  ELSE IF riskLevel(o, limits) = "critical" THEN FALSE
  ELSE IF ~checkDailyLossLimit(o, limits, loss) THEN FALSE
  ELSE IF ~checkPositionSizeLimit(o, limits) THEN FALSE
  ELSE IF ~checkCorrelationLimit(o, limits) THEN FALSE
  ELSE IF ~checkLiquidityRequirement(o, limits) THEN FALSE
  ELSE TRUE

\* RiskManagementService.validateTrade: the answer for opportunity o under
\* the limits and the daily loss recorded so far.  performRiskAssessment
\* awaits database.saveRiskAssessment and rethrows its error, which
\* validateTrade catches and turns into a rejection (dbOk = FALSE).
validateTrade(o, limits, loss, dbOk) ==
  IF ~dbOk THEN FALSE
  ELSE IF riskLevel(o, limits) = "critical" THEN FALSE
  ELSE IF riskLevel(o, limits) = "high" THEN FALSE
  ELSE IF ~checkDailyLossLimit(o, limits, loss) THEN FALSE
  ELSE IF ~checkPositionSizeLimit(o, limits) THEN FALSE
  ELSE IF ~checkCorrelationLimit(o, limits) THEN FALSE
  ELSE IF ~checkLiquidityRequirement(o, limits) THEN FALSE
  ELSE TRUE

\* validateTrade called directly on opportunity o: the call, the rolling
\* state it read and its answer are recorded; the rolling state is not written.
EvaluateRisk(o, dbOk) ==
  /\ lastEval' = [opportunity |-> o, dailyLoss |-> dailyLoss,
                  decision |-> IF validateTrade(o, riskLimits, dailyLoss, dbOk)
                                 THEN "accept" ELSE "reject"]
  /\ UNCHANGED <<adviceVars, engineVars, coordVars, walletVars, storeVars, cancelVars, blockVars,
                 opportunity, riskLimits, dailyLoss, lossUpdates, calls>>

\* updateDailyLoss(loss).
UpdateDailyLoss(loss) ==
  /\ lossUpdates < MaxLossUpdates
  /\ dailyLoss' = dailyLoss + loss
  /\ lossUpdates' = lossUpdates + 1
  /\ UNCHANGED <<adviceVars, engineVars, coordVars, walletVars, storeVars, cancelVars, blockVars,
                 opportunity, riskLimits, lastEval, calls>>

\* resetDailyLoss, run by the timer set for midnight UTC.
ResetDailyLoss ==
  /\ dailyLoss' = 0
  /\ lossUpdates' = 0
  /\ UNCHANGED <<adviceVars, engineVars, coordVars, walletVars, storeVars, cancelVars, blockVars,
                 opportunity, riskLimits, lastEval, calls>>

\* ------------------------------------------------- ArbitrageEngine
\* handlePriceUpdate for one profitable opportunity o:
\* executeHighPriorityTrades tests the concurrency limit, shouldExecuteTrade
\* tests the pair and then awaits riskManagement.validateTrade (which awaits
\* database.saveRiskAssessment).
HandlePriceUpdate(t, o) ==
  /\ pc[t] = "idle"
  /\ opportunity' = [opportunity EXCEPT ![t] = o]
  /\ trade' = [trade EXCEPT ![t].tokenPair = o.tokenPair]
  /\ IF Cardinality(engActive) >= maxConcurrentTrades
       THEN pc' = [pc EXCEPT ![t] = "dropped"]
       ELSE IF ActivePairTrades(engActive, o.tokenPair) # {}
         THEN pc' = [pc EXCEPT ![t] = "dropped"]
         ELSE pc' = [pc EXCEPT ![t] = "risk"]
  /\ UNCHANGED <<adviceVars, riskVars, calls,
                 engineVars, leg, tesActive, tesPending, result,
                 walletVars, storeVars, cancelVars, blockVars>>

\* The catch block of executeArbitrageTrade up to its await of saveTrade.
CatchBlock(t, tr, code) ==
  /\ trade' = [tr EXCEPT ![t].status = "failed", ![t].error = code]
  /\ pc' = [pc EXCEPT ![t] = "failing"]

\* executeTrade: the Trade created for the opportunity of handler t.
NewTrade(t) ==
  [trade EXCEPT ![t].status = "pending", ![t].tradeSize = opportunity[t].optimalTradeSize]

\* Mutant of RiskReturn: executeTrade's creation and registration of the trade
\* happen before the gate's answer is looked at.
RiskReturn_RegistersBeforeGate(t, dbOk, mevHigh, defect) ==
  /\ pc[t] = "risk"
  /\ engActive' = engActive \cup {t}
  /\ IF ~validateTrade(opportunity[t], riskLimits, dailyLoss, dbOk)
       THEN /\ pc' = [pc EXCEPT ![t] = "rejected"]
            /\ trade' = NewTrade(t)
       ELSE IF mevHigh \/ opportunity[t].gasCostPct > 50
         THEN /\ pc' = [pc EXCEPT ![t] = "dropped"]
              /\ trade' = NewTrade(t)
         ELSE IF t \in tesActive
           THEN CatchBlock(t, NewTrade(t), "DUPLICATE_TRADE")
           ELSE IF defect # "none"
             THEN CatchBlock(t, NewTrade(t), defect)
             ELSE /\ trade' = NewTrade(t)
                  /\ pc' = [pc EXCEPT ![t] = "validating"]
  /\ UNCHANGED <<adviceVars, riskVars, opportunity, calls,
                 maxConcurrentTrades, leg, tesActive, tesPending, result,
                 walletVars, storeVars, cancelVars, blockVars>>

\* shouldExecuteTrade resumes with the risk gate's answer, computed with the
\* storage outcome dbOk of its saveRiskAssessment; a rejection ends the
\* handler's work on the opportunity, and so do a high MEV risk (mevHigh) and
\* gas above 50% of the profit.  Otherwise executeTrade creates the trade,
\* registers it and calls executeArbitrageTrade, whose validateTrade runs its
\* field checks (defect names the one that fails, "none" if none does) up to
\* its await of walletService.getBalance.
RiskReturn(t, dbOk, mevHigh, defect) ==
  /\ pc[t] = "risk"
  /\ IF ~validateTrade(opportunity[t], riskLimits, dailyLoss, dbOk)
       THEN /\ pc' = [pc EXCEPT ![t] = "rejected"]
            /\ UNCHANGED <<trade, engActive>>
       ELSE IF mevHigh \/ opportunity[t].gasCostPct > 50
         THEN /\ pc' = [pc EXCEPT ![t] = "dropped"]
              /\ UNCHANGED <<trade, engActive>>
         ELSE /\ engActive' = engActive \cup {t}
              /\ IF t \in tesActive
                   THEN CatchBlock(t, NewTrade(t), "DUPLICATE_TRADE")
                   ELSE IF defect # "none"
                     THEN CatchBlock(t, NewTrade(t), defect)
                     ELSE /\ trade' = NewTrade(t)
                          /\ pc' = [pc EXCEPT ![t] = "validating"]
  /\ UNCHANGED <<adviceVars, riskVars, opportunity, calls,
                 maxConcurrentTrades, leg, tesActive, tesPending, result,
                 walletVars, storeVars, cancelVars, blockVars>>

\* ------------------------------------------- TradeExecutionService
\* Mutant of Advise: the gas advisor is asked before the MEV advisor.
Advise_GasFirst(log) == log \o <<"gas", "mev">>

\* executeArbitrageTrade, lines 314-317: the MEV advisor, then the gas
\* advisor, are asked once per trade, before the buy leg; both answer with
\* defaults when they fail.  `log` is the coordinator's call log so far.
Advise(log) == log \o <<"mev", "gas">>

\* WalletService.getNonce called for leg l of trade t, after
\* walletService.getGasPrice has answered: a cached nonce is handed out at
\* once and the transaction goes to wallet.sendTransaction; without a cache
\* entry the call awaits provider.getTransactionCount.  `log` is the
\* coordinator's call log up to this call.
BeginLeg(t, l, log) ==
  /\ leg' = [leg EXCEPT ![t] = l]
  /\ IF nonceCache # NoNonce
       THEN /\ txNonce' = [txNonce EXCEPT ![Hash(t, l)] = nonceCache]
            /\ nonceCache' = nonceCache + 1
            /\ calls' = [calls EXCEPT ![t] = log \o <<"nonce", "send">>]
            /\ pc' = [pc EXCEPT ![t] = "sending"]
       ELSE /\ calls' = [calls EXCEPT ![t] = log \o <<"nonce">>]
            /\ pc' = [pc EXCEPT ![t] = "nonce"]
            /\ UNCHANGED <<nonceCache, txNonce>>

\* Mutant of ValidateReturn: a failed check is recorded on the trade but not
\* thrown, so the execution goes on.
ValidateReturn_RecordsAndContinues(t, balanceOk) ==
  /\ pc[t] = "validating"
  /\ pc' = [pc EXCEPT ![t] = "validated"]
  /\ trade' = IF ~balanceOk THEN [trade EXCEPT ![t].error = "INSUFFICIENT_BALANCE"]
               ELSE IF ActivePairTrades(tesActive, trade[t].tokenPair) # {}
                 THEN [trade EXCEPT ![t].error = "DUPLICATE_PAIR_TRADE"]
                 ELSE trade
  /\ UNCHANGED <<adviceVars, riskVars, opportunity, calls,
                 engineVars, leg, tesActive, tesPending, result, walletVars,
                 storeVars, cancelVars, blockVars>>

\* validateTrade resumes after getBalance: the balance test, then the pair
\* test, then it returns to executeArbitrageTrade, which is awaiting it.
ValidateReturn(t, balanceOk) ==
  /\ pc[t] = "validating"
  /\ IF ~balanceOk
       THEN CatchBlock(t, trade, "INSUFFICIENT_BALANCE")
       ELSE IF ActivePairTrades(tesActive, trade[t].tokenPair) # {}
         THEN CatchBlock(t, trade, "DUPLICATE_PAIR_TRADE")
         ELSE /\ pc' = [pc EXCEPT ![t] = "validated"]
              /\ UNCHANGED trade
  /\ UNCHANGED <<adviceVars, riskVars, opportunity, calls,
                 engineVars, leg, tesActive, tesPending, result, walletVars,
                 storeVars, cancelVars, blockVars>>

\* executeArbitrageTrade resumes after validateTrade: it marks the trade
\* executing, registers it in activeTrades and starts the buy leg.
Register(t) ==
  /\ pc[t] = "validated"
  /\ trade' = [trade EXCEPT ![t].status = "executing"]
  /\ tesActive' = tesActive \cup {t}
  /\ BeginLeg(t, "buy", Advise(calls[t]))
  /\ UNCHANGED <<adviceVars, riskVars, opportunity,
                 engineVars, tesPending, result, chain, wOrder, wStatus,
                 storeVars, cancelVars, blockVars>>

\* NotificationService.sendEmergencyNotification: one critical notification
\* is delivered for the trade.
sendEmergencyNotification(n, t) == [n EXCEPT ![t].critical = @ + 1]

\* NotificationService.sendTradeFailureNotification.
sendTradeFailureNotification(n, t) == [n EXCEPT ![t].failure = @ + 1]

\* NotificationService.sendTradeSuccessNotification.
sendTradeSuccessNotification(n, t) == [n EXCEPT ![t].success = @ + 1]

\* handleFailedSell: the position bought is reported through
\* notifications.sendEmergencyNotification({type: 'FAILED_SELL', ...}).
HandleFailedSell(t) ==
  notifs' = sendEmergencyNotification(notifs, t)

\* walletService.executeTransaction returned {success: false} for the current
\* leg: a failed buy throws BUY_EXECUTION_FAILED; a failed sell goes through
\* handleFailedSell and throws SELL_EXECUTION_FAILED.
LegSubmitFailed(t) ==
  IF leg[t] = "buy"
    THEN /\ CatchBlock(t, trade, "BUY_EXECUTION_FAILED")
         /\ UNCHANGED notifs
    ELSE /\ HandleFailedSell(t)
         /\ CatchBlock(t, trade, "SELL_EXECUTION_FAILED")

\* getNonce resumes with the network's transaction count (or its error).
NonceReturn(t, ok) ==
  /\ pc[t] = "nonce"
  /\ IF ok
       THEN /\ nonceCache' = NetworkNonce + nonceOffset + 1
            /\ txNonce' = [txNonce EXCEPT ![Hash(t, leg[t])] = NetworkNonce + nonceOffset]
            /\ calls' = [calls EXCEPT ![t] = @ \o <<"send">>]
            /\ pc' = [pc EXCEPT ![t] = "sending"]
            /\ UNCHANGED <<trade, notifs>>
       ELSE /\ CatchBlock(t, trade, IF leg[t] = "buy" THEN "BUY_EXECUTION_FAILED"
                                                      ELSE "SELL_EXECUTION_FAILED")
            /\ UNCHANGED <<nonceCache, txNonce, notifs, calls>>
  /\ UNCHANGED <<adviceVars, riskVars, opportunity,
                 engineVars, leg, tesActive, tesPending, result, chain,
                 wOrder, wStatus, db, cancelVars, blockVars>>

\* executeTransaction resumes after wallet.sendTransaction: on success the
\* transaction is in the network's hands and is recorded as pending in the
\* wallet, which then awaits database.saveTransaction.
SendReturn(t, ok) ==
  /\ pc[t] = "sending"
  /\ IF ok
       THEN /\ chain' = [chain EXCEPT ![Hash(t, leg[t])] = "mempool"]
            /\ wOrder' = Append(wOrder, Hash(t, leg[t]))
            /\ wStatus' = [wStatus EXCEPT ![Hash(t, leg[t])] = "pending"]
            /\ pc' = [pc EXCEPT ![t] = "saving"]
            /\ UNCHANGED <<trade, notifs>>
       ELSE /\ LegSubmitFailed(t)
            /\ UNCHANGED <<chain, wOrder, wStatus>>
  /\ UNCHANGED <<adviceVars, riskVars, opportunity, calls,
                 engineVars, leg, tesActive, tesPending, result, nonceCache,
                 txNonce, db, cancelVars, blockVars>>

\* executeTransaction resumes after database.saveTransaction and returns; the
\* coordinator records the hash as pending and makes the first status check of
\* waitForTransactionConfirmation.  A storage error makes executeTransaction
\* return {success: false} although the transaction was sent.
SaveTxReturn(t, ok) ==
  /\ pc[t] = "saving"
  /\ IF ok
       THEN /\ tesPending' = [tesPending EXCEPT ![Hash(t, leg[t])] = "pending"]
            /\ pc' = [pc EXCEPT ![t] = "wait"]
            /\ UNCHANGED <<trade, notifs>>
       ELSE /\ LegSubmitFailed(t)
            /\ UNCHANGED tesPending
  /\ UNCHANGED <<adviceVars, riskVars, opportunity, calls,
                 engineVars, leg, tesActive, result, walletVars, db, cancelVars,
                 blockVars>>

\* Mutant of WaitOutcome: when the time is used up the loop is left without
\* throwing, so the wait returns as if the transaction had been confirmed.
WaitOutcome_TimeoutReturns(status, expired) ==
  IF expired THEN "confirmed"
  ELSE IF status = "confirmed" THEN "confirmed"
  ELSE IF status = "failed" THEN "TRANSACTION_FAILED"
  ELSE "sleep"

\* waitForTransactionConfirmation, one pass of its loop on waking from the
\* one-second sleep; `expired` says whether config.timeout has elapsed since
\* the wait began.  The loop ends with a timeout once the time is used up,
\* returns on 'confirmed', throws on 'failed', and otherwise sleeps again.
WaitOutcome(status, expired) ==
  IF expired THEN "CONFIRMATION_TIMEOUT"
  ELSE IF status = "confirmed" THEN "confirmed"
  ELSE IF status = "failed" THEN "TRANSACTION_FAILED"
  ELSE "sleep"

\* calculateActualProfit: sellAmount - buyAmount, the amounts being the value
\* field of the two transactions as executeTransaction reports it: the trade
\* size for the buy (prepareBuyTransaction), 0 for the sell
\* (prepareSellTransaction).
calculateActualProfit(tr) ==
  LET buyAmount == tr.tradeSize
      sellAmount == 0
  IN sellAmount - buyAmount

\* The wait wakes up.  A confirmed buy starts the sell leg; a confirmed sell
\* completes the trade up to the await of saveTrade.
Poll(t, expired) ==
  /\ pc[t] = "wait"
  /\ LET o == WaitOutcome(tesPending[Hash(t, leg[t])], expired) IN
       CASE o = "sleep" ->
              /\ FALSE    \* sleeping again changes nothing
         [] o = "confirmed" /\ leg[t] = "buy" ->
              /\ BeginLeg(t, "sell", calls[t])
              /\ UNCHANGED trade
         [] o = "confirmed" /\ leg[t] = "sell" ->
              /\ trade' = [trade EXCEPT ![t].status = "completed",
                                         ![t].actualProfit = calculateActualProfit(trade[t])]
              /\ pc' = [pc EXCEPT ![t] = "completing"]
              /\ UNCHANGED <<leg, nonceCache, txNonce, calls>>
         [] OTHER ->
              /\ CatchBlock(t, trade, o)
              /\ UNCHANGED <<leg, nonceCache, txNonce, calls>>
  /\ UNCHANGED <<adviceVars, riskVars, opportunity,
                 engineVars, tesActive, tesPending, result, chain, wOrder, wStatus,
                 storeVars, cancelVars, blockVars>>

\* executeArbitrageTrade resumes after saveTrade on the success path: the trade
\* leaves the coordinator's registry and the result goes to executeTrade, whose
\* handleSuccessfulTrade runs up to its own await of saveTrade.  A storage error
\* lands in the catch block instead.
SaveTradeReturn(t, ok) ==
  /\ pc[t] = "completing"
  /\ IF ok
       THEN /\ db' = [db EXCEPT ![t] = TradeRow(trade[t])]
            /\ tesActive' = tesActive \ {t}
            /\ result' = [result EXCEPT ![t] = "success"]
            /\ trade' = [trade EXCEPT ![t].status = "completed",
                           ![t].transactionHash = <<Hash(t, "buy"), Hash(t, "sell")>>]
            /\ engActive' = engActive \ {t}
            /\ pc' = [pc EXCEPT ![t] = "engSaving"]
       ELSE /\ CatchBlock(t, trade, "SAVE_FAILED")
            /\ UNCHANGED <<db, tesActive, result, engActive>>
  /\ UNCHANGED <<adviceVars, riskVars, opportunity, calls,
                 maxConcurrentTrades, leg, tesPending, walletVars, notifs,
                 cancelVars, blockVars>>

\* The catch block resumes after saveTrade: the trade leaves the coordinator's
\* registry, the failure notification is sent and {success: false} goes to
\* executeTrade, whose handleFailedTrade(trade) runs up to its await of
\* saveTrade.  A storage error makes executeArbitrageTrade reject: executeTrade
\* then calls handleFailedTrade(opportunity), which deletes the opportunity's
\* id, not the trade's, from the engine's registry.
FailSaveReturn(t, ok) ==
  /\ pc[t] = "failing"
  /\ IF ok
       THEN /\ db' = [db EXCEPT ![t] = TradeRow(trade[t])]
            /\ tesActive' = tesActive \ {t}
            /\ notifs' = sendTradeFailureNotification(notifs, t)
            /\ result' = [result EXCEPT ![t] = "failed"]
            /\ trade' = [trade EXCEPT ![t].status = "failed"]
            /\ engActive' = engActive \ {t}
       ELSE /\ result' = [result EXCEPT ![t] = "rejected"]
            /\ UNCHANGED <<db, tesActive, notifs, trade, engActive>>
  /\ pc' = [pc EXCEPT ![t] = "engSaving"]
  /\ UNCHANGED <<adviceVars, riskVars, opportunity, calls,
                 maxConcurrentTrades, leg, tesPending, walletVars,
                 cancelVars, blockVars>>

\* handleSuccessfulTrade / handleFailedTrade resume after saveTrade and send
\* their notification; a storage error is caught and logged.
EngSaveReturn(t, ok) ==
  /\ pc[t] = "engSaving"
  /\ pc' = [pc EXCEPT ![t] = "done"]
  /\ IF ~ok
       THEN UNCHANGED <<db, notifs>>
       ELSE /\ db' = IF result[t] = "rejected" THEN db
                     ELSE [db EXCEPT ![t] = TradeRow(trade[t])]
            /\ notifs' = IF result[t] = "success"
                           THEN sendTradeSuccessNotification(notifs, t)
                           ELSE sendTradeFailureNotification(notifs, t)
  /\ UNCHANGED <<adviceVars, riskVars, opportunity, calls,
                 engineVars, leg, trade, tesActive, tesPending, result,
                 walletVars, cancelVars, blockVars>>

\* The tradeId of the entry executeBuyTransaction / executeSellTransaction
\* stores in pendingTransactions for hash h: the entry is the prepared
\* transaction with hash, status and timestamp, and has no tradeId.
NoTradeId == 0
EntryTradeId(h) == NoTradeId

\* The pending transactions cancelTrade(t) finds for the trade.
PendingOfTrade(t) == {h \in Hashes : tesPending[h] # "absent" /\ EntryTradeId(h) = t}

\* cancelTrade(t): refused when the coordinator has not registered the trade;
\* otherwise the trade is marked cancelled and unregistered, the pending
\* transactions whose tradeId is t are passed to walletService.cancelTransaction
\* and deleted, and the trade is saved.
CancelEffect(t, dbOk) ==
  IF t \notin tesActive
    THEN /\ cancelResult' = [cancelResult EXCEPT ![t] = "false"]
         /\ UNCHANGED <<trade, tesActive, tesPending, cancelRequests, db>>
    ELSE /\ trade' = [trade EXCEPT ![t].status = "cancelled"]
         /\ tesActive' = tesActive \ {t}
         /\ cancelRequests' = cancelRequests \cup PendingOfTrade(t)
         /\ tesPending' = [h \in Hashes |-> IF h \in PendingOfTrade(t) THEN "absent"
                                             ELSE tesPending[h]]
         /\ IF dbOk
              THEN /\ db' = [db EXCEPT ![t] = TradeRow(trade'[t])]
                   /\ cancelResult' = [cancelResult EXCEPT ![t] = "true"]
              ELSE /\ cancelResult' = [cancelResult EXCEPT ![t] = "false"]
                   /\ UNCHANGED db

\* cancelTrade(t) called from outside the engine.
CancelTrade(t, dbOk) ==
  /\ CancelEffect(t, dbOk)
  /\ UNCHANGED <<adviceVars, riskVars, opportunity, calls,
                 engineVars, pc, leg, result, walletVars,
                 notifs, blockVars>>

\* --------------------------------------------------- WalletService
\* The entry updatePendingTransactions visits next: the first one, in the
\* map's insertion order, not yet visited and still 'pending'.
NextPending(seen) ==
  LET idx == {i \in 1..Len(wOrder) : wOrder[i] \notin seen /\ wStatus[wOrder[i]] = "pending"}
  IN IF idx = {} THEN NoHash
     ELSE wOrder[CHOOSE i \in idx : \A j \in idx : i <= j]

\* The loop of updatePendingTransactions moves on: to the await of the next
\* pending entry's receipt, or out of the loop.
Advance(b, seen) ==
  IF NextPending(seen) = NoHash
    THEN /\ bpc' = [bpc EXCEPT ![b] = "idle"]
         /\ bcur' = [bcur EXCEPT ![b] = NoHash]
         /\ bseen' = [bseen EXCEPT ![b] = {}]
    ELSE /\ bpc' = [bpc EXCEPT ![b] = "receipt"]
         /\ bcur' = [bcur EXCEPT ![b] = NextPending(seen)]
         /\ bseen' = [bseen EXCEPT ![b] = seen \cup {NextPending(seen)}]

\* handleNewBlock: a 'block' event starts updatePendingTransactions.
HandleNewBlock(b) ==
  /\ bpc[b] = "idle"
  /\ NextPending({}) # NoHash
  /\ Advance(b, {})
  /\ UNCHANGED <<adviceVars, riskVars, opportunity, calls, emitted,
                 engineVars, coordVars, walletVars, storeVars, cancelVars>>

\* Mutant of HandleTransactionEvent: the failure listener records 'confirmed'.
HandleTransactionEvent_FailedAsConfirmed(pending, h, status) ==
  IF pending[h] # "absent" THEN [pending EXCEPT ![h] = "confirmed"] ELSE pending

\* TradeExecutionService.handleTransactionConfirmed / handleTransactionFailed:
\* the status is recorded only if the hash is already in pendingTransactions.
HandleTransactionEvent(pending, h, status) ==
  IF pending[h] # "absent" THEN [pending EXCEPT ![h] = status] ELSE pending

\* updatePendingTransactions resumes with the receipt of bcur: none yet, or a
\* receipt with status 1 (confirmed) or 0 (failed), which is recorded and
\* emitted before the await of database.saveTransaction.
ReceiptReturn(b) ==
  /\ bpc[b] = "receipt"
  /\ LET h == bcur[b] IN
       IF chain[h] \notin {"success", "reverted"}
         THEN /\ Advance(b, bseen[b])
              /\ UNCHANGED <<wStatus, tesPending, emitted>>
         ELSE LET st == IF chain[h] = "success" THEN "confirmed" ELSE "failed" IN
              /\ wStatus' = [wStatus EXCEPT ![h] = st]
              /\ emitted' = [emitted EXCEPT ![h] = @ + 1]
              /\ tesPending' = HandleTransactionEvent(tesPending, h, st)
              /\ bpc' = [bpc EXCEPT ![b] = "saving"]
              /\ UNCHANGED <<bcur, bseen>>
  /\ UNCHANGED <<adviceVars, riskVars, opportunity, calls,
                 engineVars, pc, leg, trade, tesActive, result, nonceCache,
                 txNonce, chain, wOrder, storeVars, cancelVars>>

\* updatePendingTransactions resumes after saveTransaction: the finished entry
\* is deleted from the wallet's map; a storage error skips the deletion.
ReceiptSaved(b, ok) ==
  /\ bpc[b] = "saving"
  /\ wOrder' = IF ok THEN SelectSeq(wOrder, LAMBDA x : x # bcur[b]) ELSE wOrder
  /\ Advance(b, bseen[b])
  /\ UNCHANGED <<adviceVars, riskVars, opportunity, calls, emitted,
                 engineVars, coordVars, nonceCache, txNonce, chain, wStatus,
                 storeVars, cancelVars>>

\* ----------------------------------------------------- the network
\* A pending transaction is included in a block, successfully or reverted.
\* The network includes an account's transactions in nonce order, one per nonce.
Mine(h, success) ==
  /\ chain[h] = "mempool"
  /\ txNonce[h] = Cardinality(Mined)
  /\ chain' = [chain EXCEPT ![h] = IF success THEN "success" ELSE "reverted"]
  /\ UNCHANGED <<adviceVars, riskVars, opportunity, calls,
                 engineVars, coordVars, nonceCache, txNonce, wOrder, wStatus,
                 storeVars, cancelVars, blockVars>>

\* The lifecycle of one opportunity, from the price-update handler that
\* carries it to the end of that handler, under every outcome of its
\* environment: storage errors, network errors, reverts, timeouts, block
\* events at any moment and cancelTrade called at any moment.
Solo == {CHOOSE t \in Trades : \A u \in Trades : t <= u}

Next ==
  \/ \E t \in Solo, o \in Offered : HandlePriceUpdate(t, o)
  \/ \E t \in Solo, ok \in BOOLEAN, mevHigh \in BOOLEAN, defect \in FieldDefects \cup {"none"} :
       RiskReturn(t, ok, mevHigh, defect)
  \/ \E t \in Solo, ok \in BOOLEAN : ValidateReturn(t, ok)
  \/ \E t \in Solo : Register(t)
  \/ \E t \in Solo, ok \in BOOLEAN : NonceReturn(t, ok)
  \/ \E t \in Solo, ok \in BOOLEAN : SendReturn(t, ok)
  \/ \E t \in Solo, ok \in BOOLEAN : SaveTxReturn(t, ok)
  \/ \E t \in Solo, expired \in BOOLEAN : Poll(t, expired)
  \/ \E t \in Solo, ok \in BOOLEAN : SaveTradeReturn(t, ok)
  \/ \E t \in Solo, ok \in BOOLEAN : FailSaveReturn(t, ok)
  \/ \E t \in Solo, ok \in BOOLEAN : EngSaveReturn(t, ok)
  \/ \E t \in Solo, ok \in BOOLEAN : CancelTrade(t, ok)
  \/ \E b \in BlockHandlers : HandleNewBlock(b)
  \/ \E b \in BlockHandlers : ReceiptReturn(b)
  \/ \E b \in BlockHandlers, ok \in BOOLEAN : ReceiptSaved(b, ok)
  \/ \E h \in Hashes, ok \in BOOLEAN : Mine(h, ok)

Spec == Init /\ [][Next]_vars

\* Overlapping price-update handlers, one per trade of Trades, with a storage
\* collaborator and an RPC endpoint that answer, and nobody calling cancelTrade:
\* what is left is the interleaving of the handlers, failed submissions,
\* reverts and confirmation timeouts.
NextRace ==
  \/ \E t \in Trades, o \in Offered : HandlePriceUpdate(t, o)
  \/ \E t \in Trades : RiskReturn(t, TRUE, FALSE, "none")
  \/ \E t \in Trades : ValidateReturn(t, TRUE)
  \/ \E t \in Trades : Register(t)
  \/ \E t \in Trades : NonceReturn(t, TRUE)
  \/ \E t \in Trades, ok \in BOOLEAN : SendReturn(t, ok)
  \/ \E t \in Trades : SaveTxReturn(t, TRUE)
  \/ \E t \in Trades, expired \in BOOLEAN : Poll(t, expired)
  \/ \E t \in Trades : SaveTradeReturn(t, TRUE)
  \/ \E t \in Trades : FailSaveReturn(t, TRUE)
  \/ \E t \in Trades : EngSaveReturn(t, TRUE)
  \/ \E b \in BlockHandlers : HandleNewBlock(b)
  \/ \E b \in BlockHandlers : ReceiptReturn(b)
  \/ \E b \in BlockHandlers : ReceiptSaved(b, TRUE)
  \/ \E h \in Hashes, ok \in BOOLEAN : Mine(h, ok)

SpecRace == Init /\ [][NextRace]_vars

\* The pipeline of Spec with the scheduling spelled out.  Timers fire: the
\* one-second sleep of waitForTransactionConfirmation ends and its deadline
\* passes.  The collaborators answer every call, with one exception: nothing
\* is assumed of provider.getTransactionCount, of the inclusion of
\* transactions in blocks or of the arrival of block events.
TimerFires(t) == \E expired \in BOOLEAN : Poll(t, expired)
Answered(t) ==
  \/ \E ok \in BOOLEAN, mevHigh \in BOOLEAN, defect \in FieldDefects \cup {"none"} :
       RiskReturn(t, ok, mevHigh, defect)
  \/ \E ok \in BOOLEAN : ValidateReturn(t, ok)
  \/ Register(t)
  \/ \E ok \in BOOLEAN : SendReturn(t, ok)
  \/ \E ok \in BOOLEAN : SaveTxReturn(t, ok)
  \/ \E ok \in BOOLEAN : SaveTradeReturn(t, ok)
  \/ \E ok \in BOOLEAN : FailSaveReturn(t, ok)
  \/ \E ok \in BOOLEAN : EngSaveReturn(t, ok)
Fairness ==
  \A t \in Solo : WF_vars(TimerFires(t)) /\ WF_vars(Answered(t))

SpecLive == Init /\ [][Next]_vars /\ Fairness

\* The risk gate on its own: validateTrade called on any opportunity, with
\* its storage answering or not, between updates and resets of the daily loss.
Losses == {500}
NextRisk ==
  \/ \E o \in Opportunity, dbOk \in BOOLEAN : EvaluateRisk(o, dbOk)
  \/ \E loss \in Losses : UpdateDailyLoss(loss)
  \/ ResetDailyLoss

SpecRisk == InitRisk /\ [][NextRisk]_vars

\* ------------------------------------------- GasOptimizationService
\* Gas prices are in gwei, congestion in percent.  The prices an observer can
\* report, the congestion levels, and the trades optimizeForTrade is asked
\* about: the total gas of estimateGasCost (two ERC-20 legs, its default, two
\* Uniswap legs), a WETH pair or not, a DEX buy venue or not.
GasPrices == {20, 90, 150}
Congestions == {0, 20, 50, 70, 90}
GasTrades == [totalGas : {172000, 500000, 572000}, weth : BOOLEAN, dex : BOOLEAN]

\* TradeExecutionConfig: MAX_GAS_PRICE (gwei) and MAX_GAS_LIMIT.
maxGasPrice == 100
maxGasLimit == 500000
WeiPerGwei == 1000000000

Max(a, b) == IF a >= b THEN a ELSE b

\* updateGasPrice: the price is appended; getCurrentGasPrice reads the last one.
UpdateGasPrice(gasPrice) ==
  /\ gasPriceHistory' = gasPrice
  /\ UNCHANGED <<pipelineVars, serviceVars, networkCongestion, gasLimitCache, gasAdvice, txGasPrice,
                 mevVars, cancelTxVars, mcpVars, passVars>>

UpdateNetworkCongestion(congestion) ==
  /\ networkCongestion' = congestion
  /\ UNCHANGED <<pipelineVars, serviceVars, gasPriceHistory, gasLimitCache, gasAdvice, txGasPrice,
                 mevVars, cancelTxVars, mcpVars, passVars>>

\* Multiplier 1.2 above 0.8, 1.1 above 0.6, 0.9 below 0.3, then the clamp to
\* [0.8, 1.5] times the current price (tenths of a gwei until the division).
calculateOptimalGasPrice(currentPrice, congestion) ==
  LET optimalPrice == IF congestion > 80 THEN currentPrice * 12
                      ELSE IF congestion > 60 THEN currentPrice * 11
                      ELSE IF congestion < 30 THEN currentPrice * 9
                      ELSE currentPrice * 10
  IN Max(currentPrice * 8, Min(optimalPrice, currentPrice * 15)) \div 10

\* The products base * 1.1 and base * 1.1 * 1.05 that the double arithmetic
\* leaves just above the integer (189200.00000000003, 198660.00000000003), so
\* that Math.ceil gives one more, on the fresh value and on the cached one.
CeilsAbove == {189200, 198660}
Ceil(n, d) == (n + d - 1) \div d

\* The limit before Math.ceil: base * 1.1 for WETH, * 1.05 for a DEX, * 1.0
\* for ethereum.
complexityLimit(tr) ==
  (tr.totalGas \div 1000) * (IF tr.weth THEN 11 ELSE 10) * (IF tr.dex THEN 105 ELSE 100)

\* calculateOptimalGasLimit: the cached limit plus 5% when the pair has one,
\* else the limit computed from the trade, which is cached.
calculateOptimalGasLimit(tr, cachedLimit) ==
  IF cachedLimit # 0
    THEN Ceil(cachedLimit * 105, 100) + (IF cachedLimit \in CeilsAbove THEN 1 ELSE 0)
    ELSE complexityLimit(tr) + (IF complexityLimit(tr) \in CeilsAbove THEN 1 ELSE 0)

\* optimizeForTrade: the congestion recorded for the network, 0.5 when the
\* entry is missing or 0 (`|| 0.5`), the last price, the two computations.
OptimizeForTrade(tr) ==
  LET congestion == IF networkCongestion = 0 THEN 50 ELSE networkCongestion
  IN /\ gasAdvice' = [observed |-> gasPriceHistory,
                      congestion |-> networkCongestion,
                      gasPrice |-> calculateOptimalGasPrice(gasPriceHistory, congestion),
                      gasLimit |-> calculateOptimalGasLimit(tr, gasLimitCache),
                      fromCache |-> gasLimitCache # 0]
     /\ gasLimitCache' = IF gasLimitCache # 0 THEN gasLimitCache ELSE complexityLimit(tr)
     /\ UNCHANGED <<pipelineVars, serviceVars, gasPriceHistory, networkCongestion, txGasPrice,
                    mevVars, cancelTxVars, mcpVars, passVars>>

\* WalletService.getGasPrice: the network's price in wei, capped at
\* maxGasPrice gwei expressed in wei.
getGasPrice(feeGasPrice) ==
  IF feeGasPrice \div WeiPerGwei >= maxGasPrice THEN maxGasPrice * WeiPerGwei ELSE feeGasPrice

\* prepareBuyTransaction / prepareSellTransaction: the number getGasPrice
\* returned (wei) times 1 + gasAdjustment, capped at config.maxGasPrice and
\* then read as gwei.  The adjustment is not negative, so a number that is at
\* least the cap stays at least the cap.
finalGasPrice(feeGasPrice, gasAdjustment) ==
  IF getGasPrice(feeGasPrice) >= maxGasPrice
    THEN maxGasPrice
    ELSE Min((getGasPrice(feeGasPrice) * (100 + gasAdjustment)) \div 100, maxGasPrice)

\* WalletService.prepareTransaction: the gas price of the request is not
\* copied; on a legacy network the number getGasPrice returned (wei) is
\* parsed as gwei, on an EIP-1559 network the network's maxFeePerGas is used.
prepareTransaction(feeGasPrice, eip1559) ==
  IF eip1559 THEN [amount |-> feeGasPrice, unit |-> "wei"]
             ELSE [amount |-> getGasPrice(feeGasPrice), unit |-> "gwei"]

\* One leg prepared by the coordinator and submitted by the wallet, at a
\* network price of feeGasPrice wei and an MEV gas adjustment in percent.
NetworkGasPrices == {1000000, 100000000, 2000000000}
GasAdjustments == {5, 10, 20, 30}
SubmitLeg(feeGasPrice, gasAdjustment, eip1559) ==
  /\ txGasPrice' = [prepared |-> [amount |-> finalGasPrice(feeGasPrice, gasAdjustment), unit |-> "gwei"],
                    submitted |-> prepareTransaction(feeGasPrice, eip1559)]
  /\ UNCHANGED <<pipelineVars, serviceVars, gasPriceHistory, networkCongestion, gasLimitCache, gasAdvice,
                 mevVars, cancelTxVars, mcpVars, passVars>>

\* A gas price above the ceiling of maxGasPrice gwei.
AboveCeiling(price) ==
  IF price.unit = "gwei" THEN price.amount > maxGasPrice
  ELSE IF price.unit = "wei"
    THEN \/ price.amount \div WeiPerGwei > maxGasPrice
         \/ (price.amount \div WeiPerGwei = maxGasPrice /\ price.amount % WeiPerGwei > 0)
    ELSE FALSE

\* The gas advisor and the gas price of a leg, under any sequence of observed
\* prices, congestion levels, trades and network prices.
NextGas ==
  \/ \E gasPrice \in GasPrices : UpdateGasPrice(gasPrice)
  \/ \E congestion \in Congestions : UpdateNetworkCongestion(congestion)
  \/ \E tr \in GasTrades : OptimizeForTrade(tr)
  \/ \E feeGasPrice \in NetworkGasPrices, gasAdjustment \in GasAdjustments, eip1559 \in BOOLEAN :
       SubmitLeg(feeGasPrice, gasAdjustment, eip1559)

SpecGas == Init /\ [][NextGas]_vars

\* ------------------------------------ WalletService.cancelTransaction
\* The entries of pendingTransactions cancelTransaction can be asked about:
\* their nonce and their gas price in gwei (what executeTransaction stored for
\* a legacy transaction is a whole number of gwei).
PendingNonces == 0..7
PendingGasPrices == {20, 100, 1000000, 100000000}
NoReplacement == [to |-> "none", nonce |-> NoNonce, gasPrice |-> 0]

\* The cancellation transaction: to the wallet's own address, with the nonce
\* of the original and 1.2 times its gas price.
cancellationTx(transaction) ==
  [to |-> "wallet.address", nonce |-> transaction.nonce,
   gasPrice |-> (transaction.gasPrice * 12) \div 10]

\* cancelTransaction(hash): false for an unknown hash; else the cancellation
\* transaction is sent, the original marked cancelled and saved.  A rejection
\* of sendTransaction or of saveTransaction ends in the catch, which returns
\* false.
CancelTransaction(found, transaction, sendOk, dbOk) ==
  /\ cancellation' =
       IF ~found
         THEN [called |-> TRUE, found |-> FALSE, original |-> transaction,
               replacement |-> NoReplacement, status |-> "absent", returned |-> FALSE]
         ELSE IF ~sendOk
           THEN [called |-> TRUE, found |-> TRUE, original |-> transaction,
                 replacement |-> NoReplacement, status |-> "pending", returned |-> FALSE]
           ELSE [called |-> TRUE, found |-> TRUE, original |-> transaction,
                 replacement |-> cancellationTx(transaction), status |-> "cancelled",
                 returned |-> dbOk]
  /\ UNCHANGED <<pipelineVars, serviceVars, gasVars, mevVars, mcpVars, passVars>>

NextCancelTx ==
  \E found \in BOOLEAN, nonce \in PendingNonces, gasPrice \in PendingGasPrices,
     sendOk \in BOOLEAN, dbOk \in BOOLEAN :
    CancelTransaction(found, [nonce |-> nonce, gasPrice |-> gasPrice], sendOk, dbOk)

SpecCancelTx == Init /\ [][NextCancelTx]_vars

\* ---------------------------------------------- MEVProtectionService
\* Severities are in tenths, in the order frontrunning, sandwich, timebandit,
\* liquidation; a score is their sum (forty times the score of the code).
\* The severities assessMEVRisk can produce with the stubbed helpers: sums of
\* 0.3, 0.3, 0.2 for frontrunning; 0.4 or 0.2, 0.3, 0.2 for sandwich; 0.3 and
\* any of 0.2, 0.2 for timebandit; 0.3 for liquidation.
FactorTypes == <<"frontrunning", "sandwich", "timebandit", "liquidation">>
MevFactors ==
  {<<f, s, t, 3>> : f \in {0, 2, 3, 5, 6, 8}, s \in {0, 2, 3, 4, 5, 6, 7, 9}, t \in {3, 5, 7}}
\* The mevRisk applyProtection finds on its argument: the assessment of
\* assessMEVRisk, its default after an error, or nothing at all (the Trade
\* executeTrade builds has no mevRisk field).
NoMevRisk == [score |-> 0 - 1, factors |-> <<>>]
MevRisks ==
  {[score |-> fs[1] + fs[2] + fs[3] + fs[4], factors |-> fs] : fs \in MevFactors}
    \cup {[score |-> 8, factors |-> <<>>], NoMevRisk}

\* protectionStrategies, as initializeProtectionStrategies fills it.
protectionStrategies ==
  [frontrunning |-> {"random_delay", "gas_price_manipulation", "private_mempool",
                     "bundle_transactions"},
   sandwich |-> {"slippage_protection", "timing_randomization", "gas_optimization",
                 "bundle_execution"},
   timebandit |-> {"block_timing_analysis", "gas_price_strategy", "execution_timing",
                   "network_monitoring"},
   liquidation |-> {"position_monitoring", "early_liquidation", "gas_optimization",
                    "timing_strategy"}]

\* Where the double arithmetic leaves a value just above the threshold it is
\* compared with: the sandwich severity 0.4 + 0.2 = 0.6000000000000001 > 0.6,
\* and the scores of these severities, 0.30000000000000004 > 0.3.
Severe(i, factors) == factors[i] > 6 \/ (i = 2 /\ factors[i] = 6)
ScoreRoundsAbove == {<<0, 6, 3, 3>>, <<2, 4, 3, 3>>}

\* applyProtection, lines 408-416: low up to 0.3, medium up to 0.6, else high.
protectionLevel(mevRisk) ==
  IF mevRisk.score <= 12 /\ mevRisk.factors \notin ScoreRoundsAbove THEN "low"
  ELSE IF mevRisk.score <= 24 THEN "medium"
  ELSE "high"

\* getProtectionStrategies: the strategies of every factor above 0.6, then
\* those of the level, without duplicates.
getProtectionStrategies(mevRisk, level) ==
  UNION {protectionStrategies[FactorTypes[i]] :
           i \in {j \in DOMAIN mevRisk.factors : Severe(j, mevRisk.factors)}}
    \cup (IF level = "high"
            THEN {"private_mempool", "bundle_transactions", "timing_randomization"}
            ELSE IF level = "medium"
              THEN {"gas_price_manipulation", "slippage_protection"}
              ELSE {"standard_protection"})

\* calculateGasAdjustment, in percent.
calculateGasAdjustment(score) ==
  IF score > 32 THEN 30 ELSE IF score > 24 THEN 20 ELSE IF score > 16 THEN 10 ELSE 5

\* applyProtection: with no mevRisk on its argument the read of
\* mevRisk.score throws and the catch returns the default protection.
ApplyProtection(mevRisk) ==
  /\ mevResult' =
       IF mevRisk = NoMevRisk
         THEN [called |-> TRUE, mevRisk |-> mevRisk, riskLevel |-> "medium",
               protectionApplied |-> FALSE, strategies |-> {"default_protection"},
               gasAdjustment |-> 10]
         ELSE [called |-> TRUE, mevRisk |-> mevRisk, riskLevel |-> protectionLevel(mevRisk),
               protectionApplied |-> TRUE,
               strategies |-> getProtectionStrategies(mevRisk, protectionLevel(mevRisk)),
               gasAdjustment |-> calculateGasAdjustment(mevRisk.score)]
  /\ UNCHANGED <<pipelineVars, serviceVars, gasVars, cancelTxVars, mcpVars, passVars>>

NextMev == \E mevRisk \in MevRisks : ApplyProtection(mevRisk)

SpecMev == Init /\ [][NextMev]_vars

\* ------------------------------------- ArbitrageEngine, one pass
\* A price update with, for each pair, the lowest and the highest of its
\* quotes and what the services answer for the two: riskScore
\* (calculateRiskScore, tenths), the verdict of riskManagement.validateTrade,
\* mevRisk.level, gasEstimate.totalCost as a percentage of expectedProfit.usd,
\* and the size optimizeTradeSize returns.  "none" stands for a pair with
\* fewer than two quotes.
PassPairs == <<<<"ETH", "USDC">>, <<"ETH", "DAI">>, <<"AVAX", "USDC">>>>
NoQuote == [lowest |-> 0, highest |-> 0, riskScore |-> 0, validates |-> FALSE,
            mevLevel |-> "low", gasCostPct |-> 0, optimizedSize |-> 0]
Quote(h, r, v, m, g, s) ==
  [lowest |-> 2000, highest |-> h, riskScore |-> r, validates |-> v,
   mevLevel |-> m, gasCostPct |-> g, optimizedSize |-> s]
Quotes ==
  {NoQuote,
   Quote(2002, 0, TRUE, "low", 10, 3000), Quote(2010, 0, TRUE, "low", 10, 3000),
   Quote(2012, 0, TRUE, "low", 10, 3000), Quote(2016, 5, TRUE, "low", 10, 0),
   Quote(2016, 0, FALSE, "low", 10, 3000), Quote(2012, 5, TRUE, "high", 10, 3000),
   Quote(2016, 0, TRUE, "medium", 60, 3000)}
PriceUpdates == [DOMAIN PassPairs -> Quotes]

\* The defaults of the constructor (lines 771-773): MIN_PROFIT_THRESHOLD in
\* hundredths of a percent, MAX_TRADE_SIZE_USD, MIN_TRADE_SIZE_USD; and the
\* answers of getAvailableLiquidity and getAvailableBalance.
profitThreshold == 50
maxTradeSize == 10000
minTradeSize == 100
getAvailableLiquidity == 10000
getAvailableBalance == 5000

\* (priceSpread / lowestPrice.price) * 100, in hundredths of a percent.
profitPercentage(q) == ((q.highest - q.lowest) * 10000) \div q.lowest

\* calculateOptimalTradeSize; optimizeTradeSize keeps its answer between
\* MIN_TRADE_SIZE_USD and maxSize.
calculateOptimalTradeSize(q) ==
  LET maxSize == Min(Min(getAvailableLiquidity, getAvailableLiquidity),
                     Min(getAvailableBalance, maxTradeSize))
  IN IF maxSize < minTradeSize THEN 0
     ELSE Max(Max(minTradeSize, Min(q.optimizedSize, maxSize)), minTradeSize)

\* Mutant of Detected: the test of the threshold is reversed.
Detected_BelowThreshold(update, i) ==
  /\ update[i] # NoQuote
  /\ profitPercentage(update[i]) < profitThreshold
  /\ calculateOptimalTradeSize(update[i]) > 0

\* detectArbitrageOpportunities: whether pair i yields an opportunity (at
\* least two quotes, the test of line 932, a positive size).
Detected(update, i) ==
  /\ update[i] # NoQuote
  /\ profitPercentage(update[i]) > profitThreshold
  /\ calculateOptimalTradeSize(update[i]) > 0

\* The opportunity detectArbitrageOpportunities builds for pair i.
OpportunityOf(update, i) ==
  [tokenPair |-> PassPairs[i], percentage |-> profitPercentage(update[i]),
   optimalTradeSize |-> calculateOptimalTradeSize(update[i]),
   riskScore |-> update[i].riskScore, validates |-> update[i].validates,
   mevLevel |-> update[i].mevLevel, gasCostPct |-> update[i].gasCostPct]
RECURSIVE detectArbitrageOpportunities(_, _)
detectArbitrageOpportunities(update, i) ==
  IF i > Len(PassPairs) THEN <<>>
  ELSE (IF Detected(update, i) THEN <<OpportunityOf(update, i)>> ELSE <<>>)
         \o detectArbitrageOpportunities(update, i + 1)

\* The filter of handlePriceUpdate, line 877.
RECURSIVE Filter(_)
Filter(opps) ==
  IF opps = <<>> THEN <<>>
  ELSE (IF Head(opps).percentage >= profitThreshold THEN <<Head(opps)>> ELSE <<>>)
         \o Filter(Tail(opps))

\* The score of executeHighPriorityTrades, in thousandths:
\* percentage * 0.7 + (1 - riskScore) * 0.3.
Score(o) == o.percentage * 7 + (10 - o.riskScore) * 30

\* Array.prototype.sort with the comparator bScore - aScore: descending and
\* stable.
RECURSIVE Insert(_, _)
Insert(o, sorted) ==
  IF sorted = <<>> THEN <<o>>
  ELSE IF Score(Head(sorted)) >= Score(o) THEN <<Head(sorted)>> \o Insert(o, Tail(sorted))
  ELSE <<o>> \o sorted
RECURSIVE SortByScore(_)
SortByScore(opps) ==
  IF opps = <<>> THEN <<>>
  ELSE Insert(opps[Len(opps)], SortByScore(SubSeq(opps, 1, Len(opps) - 1)))

\* slice(0, n).
Slice(opps, n) == SubSeq(opps, 1, Min(n, Len(opps)))

\* Mutant of shouldExecuteTrade: a risk score above 70 from the advisory
\* service vetoes the trade.
shouldExecuteTrade_AsksAdvisor(o, active) ==
  /\ {p \in active : p[1] = o.tokenPair[1]} = {}
  /\ o.validates
  /\ o.mevLevel # "high"
  /\ ~(o.gasCostPct > 50)
  /\ ~(mcpAssessment.riskScore > 70)

\* shouldExecuteTrade: the pair is not being traded, the risk gate accepts,
\* the MEV level is not high and gas costs at most half the profit.
shouldExecuteTrade(o, active) ==
  /\ {p \in active : p[1] = o.tokenPair[1]} = {}
  /\ o.validates
  /\ o.mevLevel # "high"
  /\ ~(o.gasCostPct > 50)

\* handlePriceUpdate for the update `update`, up to the loop of
\* executeHighPriorityTrades.
PriceUpdate(update) ==
  /\ passPc = "idle"
  /\ prices' = update
  /\ profitable' = SortByScore(Filter(detectArbitrageOpportunities(update, 1)))
  /\ queue' = Slice(profitable', maxConcurrentTrades)
  /\ passPc' = "loop"
  /\ UNCHANGED <<pipelineVars, serviceVars, gasVars, mevVars, cancelTxVars, mcpVars,
                 passActive, admitted, opportunitiesMissed, ttlPassed>>

\* One turn of the loop: the test of activeTrades.size, shouldExecuteTrade,
\* and executeTrade up to its await of executeArbitrageTrade.  When the loop
\* ends handlePriceUpdate returns and its locals are gone.
ConsiderNext ==
  /\ passPc = "loop"
  /\ IF queue = <<>> \/ Cardinality(passActive) >= maxConcurrentTrades
       THEN /\ passPc' = "idle"
            /\ prices' = <<>>
            /\ profitable' = <<>>
            /\ queue' = <<>>
            /\ admitted' = <<>>
            /\ ttlPassed' = FALSE
            /\ UNCHANGED passActive
       ELSE /\ queue' = Tail(queue)
            /\ IF shouldExecuteTrade(Head(queue), passActive)
                 THEN /\ passActive' = passActive \cup {Head(queue).tokenPair}
                      /\ admitted' = Append(admitted, Head(queue))
                      /\ passPc' = "trade"
                 ELSE UNCHANGED <<passActive, admitted, passPc>>
            /\ UNCHANGED <<prices, profitable, ttlPassed>>
  /\ UNCHANGED <<pipelineVars, serviceVars, gasVars, mevVars, cancelTxVars, mcpVars, opportunitiesMissed>>

\* executeArbitrageTrade has answered and handleSuccessfulTrade or
\* handleFailedTrade has run; `removed` tells whether it got as far as
\* removing the trade from activeTrades.
TradeReturns(removed) ==
  /\ passPc = "trade"
  /\ passActive' = IF removed THEN passActive \ {admitted[Len(admitted)].tokenPair}
                   ELSE passActive
  /\ passPc' = "loop"
  /\ UNCHANGED <<pipelineVars, serviceVars, gasVars, mevVars, cancelTxVars, mcpVars,
                 prices, profitable, queue, admitted, opportunitiesMissed, ttlPassed>>

\* While a trade of the pass executes, the opportunities still waiting in
\* the loop grow older than the time to live.
TtlExpires ==
  /\ passPc = "trade"
  /\ ~ttlPassed
  /\ ttlPassed' = TRUE
  /\ UNCHANGED <<pipelineVars, serviceVars, gasVars, mevVars, cancelTxVars, mcpVars,
                 prices, profitable, queue, passPc, passActive, admitted,
                 opportunitiesMissed>>

\* MCPService.assessRisk: the riskScore of the response (50 when it has
\* none), or the default assessment of the catch block.
McpRiskScores == {0, 50, 90}
AssessRisk(apiOk, riskScore) ==
  /\ mcpAssessment' = IF apiOk THEN [source |-> "api", riskScore |-> IF riskScore = 0 THEN 50 ELSE riskScore]
                      ELSE [source |-> "default", riskScore |-> 50]
  /\ UNCHANGED <<pipelineVars, serviceVars, gasVars, mevVars, cancelTxVars, detection, passVars>>

NextPass ==
  \/ \E update \in PriceUpdates : PriceUpdate(update)
  \/ ConsiderNext
  \/ \E removed \in BOOLEAN : TradeReturns(removed)
  \/ TtlExpires
  \/ \E apiOk \in BOOLEAN, riskScore \in McpRiskScores : AssessRisk(apiOk, riskScore)

SpecPass == Init /\ [][NextPass]_vars

\* ------------------------------------------------------- MCPService
\* detectOpportunities posts one inference request per price comparison.
\* A response is the number of opportunities it carries, RequestFails when
\* the request is rejected; `failing` tells that the inference API rejects
\* whatever it is sent, with the error `cause`.
MaxComparisons == 3
RequestFails == 0 - 1
Responses == {RequestFails, 0, 1, 2}
ApiErrors == {[name |-> "Error", message |-> "API Error"],
              [name |-> "AxiosError", message |-> "timeout of 30000ms exceeded"]}
ResponseLists == UNION {[1..n -> Responses] : n \in 0..MaxComparisons}

\* `${error}` of an Error object.
ErrorToString(error) == <<error.name, ": ", error.message>>

RECURSIVE Sum(_)
Sum(counts) == IF counts = <<>> THEN 0 ELSE Head(counts) + Sum(Tail(counts))

\* detectOpportunities: the first rejected request takes the call to the
\* catch block, which throws; with no rejected request the opportunities of
\* all responses are returned.
DetectOpportunities(failing, cause, responses) ==
  /\ failing => \A i \in DOMAIN responses : responses[i] = RequestFails
  /\ detection' =
       IF \E i \in DOMAIN responses : responses[i] = RequestFails
         THEN [called |-> TRUE, failing |-> failing, cause |-> cause, responses |-> responses,
               outcome |-> "rejected", opportunities |-> 0,
               message |-> <<"MCP opportunity detection failed: ">> \o ErrorToString(cause)]
         ELSE [called |-> TRUE, failing |-> failing, cause |-> cause, responses |-> responses,
               outcome |-> "resolved", opportunities |-> Sum(responses), message |-> <<>>]
  /\ UNCHANGED <<pipelineVars, serviceVars, gasVars, mevVars, cancelTxVars, mcpAssessment, passVars>>

NextMcp ==
  \E failing \in BOOLEAN, cause \in ApiErrors, responses \in ResponseLists :
    DetectOpportunities(failing, cause, responses)

SpecMcp == Init /\ [][NextMcp]_vars

\* ------------------------------------------ ArbitrageEngine start / stop
\* The handler for 'pricesUpdated' is registered by the constructor and never
\* looks at isRunning, and the price monitor emits during the collection
\* start() awaits and whenever the application has started it: the pipeline's
\* actions are enabled in every lifecycle state.
advisorVars == <<gasVars, mevVars, cancelTxVars, mcpVars, passVars>>

\* start() up to its awaits of initializeServices and priceMonitoring.start.
EngineStart ==
  /\ enginePc = "idle"
  /\ ~isRunning
  /\ enginePc' = "starting"
  /\ UNCHANGED <<pipelineVars, advisorVars, notifyVars, monitorVars, isRunning>>

\* start() resumes: isRunning is set, or a rejection (~ok) is rethrown.
EngineStarted(ok) ==
  /\ enginePc = "starting"
  /\ enginePc' = "idle"
  /\ isRunning' = ok
  /\ UNCHANGED <<pipelineVars, advisorVars, notifyVars, monitorVars>>

\* stop() up to its await of priceMonitoring.stop.
EngineStop ==
  /\ enginePc = "idle"
  /\ isRunning
  /\ enginePc' = "stopping"
  /\ UNCHANGED <<pipelineVars, advisorVars, notifyVars, monitorVars, isRunning>>

\* One turn of cancelAllActiveTrades' loop: cancelTrade(t) is awaited, its
\* answer is ignored and t is deleted from the engine's activeTrades.
StopCancel(t, dbOk) ==
  /\ enginePc = "stopping"
  /\ t \in engActive
  /\ CancelEffect(t, dbOk)
  /\ engActive' = engActive \ {t}
  /\ UNCHANGED <<adviceVars, riskVars, opportunity, calls, maxConcurrentTrades,
                 pc, leg, result, walletVars, notifs, blockVars>>

\* The loop finds no further entry and stop() clears isRunning.
EngineStopped ==
  /\ enginePc = "stopping"
  /\ engActive = {}
  /\ enginePc' = "idle"
  /\ isRunning' = FALSE
  /\ UNCHANGED <<pipelineVars, advisorVars, notifyVars, monitorVars>>

NextStop ==
  \/ Next
  \/ EngineStart
  \/ \E ok \in BOOLEAN : EngineStarted(ok)
  \/ EngineStop
  \/ \E t \in Solo, ok \in BOOLEAN : StopCancel(t, ok)
  \/ EngineStopped

SpecStop == Init /\ [][NextStop]_vars

\* ------------------------------------------------ NotificationService
\* Notifications are queued per priority in a Map of arrays; a timer and
\* cleanup() call processNotificationQueue, which walks the Map and, for each
\* priority whose array is not empty, shifts ONE notification and awaits
\* sendNotification for it.
MaxNotifications == 3

\* The position of the first key at or after position k whose array is not
\* empty, 0 if there is none: where the for..of loop next enters its body.
NextNonEmpty(k) ==
  LET ks == {j \in k..Len(nKeys) : nQueue[nKeys[j]] # <<>>} IN
  IF ks = {} THEN 0 ELSE CHOOSE j \in ks : \A l \in ks : j <= l

\* Map.clear(): the keys are gone, and an iteration in progress will visit
\* every key inserted afterwards.
Cleared(procs) ==
  /\ nKeys' = <<>>
  /\ nQueue' = [p \in Priorities |-> <<>>]
  /\ nProc' = [i \in Invocations |-> [procs[i] EXCEPT !.idx = 0]]

\* The loop of invocation i goes on from position k: it shifts the head of the
\* next non-empty array and passes it to sendNotification, or it ends; when
\* the invocation of cleanup() ends, cleanup clears the queue.
Process(i, k) ==
  LET j == NextNonEmpty(k) IN
  IF j # 0
    THEN /\ nSent' = Append(nSent, Head(nQueue[nKeys[j]]))
         /\ nQueue' = [nQueue EXCEPT ![nKeys[j]] = Tail(@)]
         /\ nProc' = [nProc EXCEPT ![i] = [pc |-> "sending", idx |-> j]]
         /\ UNCHANGED nKeys
    ELSE /\ UNCHANGED nSent
         /\ IF i = "cleanup"
              THEN Cleared([nProc EXCEPT ![i] = NoInvocation])
              ELSE /\ nProc' = [nProc EXCEPT ![i] = NoInvocation]
                   /\ UNCHANGED <<nKeys, nQueue>>

\* initialize(): startNotificationProcessing installs the timer.
NotifyInitialize ==
  /\ ~nTimer
  /\ nTimer' = TRUE
  /\ UNCHANGED <<pipelineVars, advisorVars, lifecycleVars, monitorVars,
                 nKeys, nQueue, nSent, nQueued, nProc>>

\* queueNotification(type, message, priority): the notification is pushed on
\* its priority's array, which is created on first use.
QueueNotification(priority) ==
  /\ nQueued < MaxNotifications
  /\ nQueued' = nQueued + 1
  /\ nKeys' = IF \E j \in 1..Len(nKeys) : nKeys[j] = priority THEN nKeys
              ELSE Append(nKeys, priority)
  /\ nQueue' = [nQueue EXCEPT ![priority] = Append(@, [id |-> nQueued + 1, priority |-> priority])]
  /\ UNCHANGED <<pipelineVars, advisorVars, lifecycleVars, monitorVars,
                 nSent, nProc, nTimer>>

\* The timer fires: processNotificationQueue up to its first await.
NotifyTick ==
  /\ nTimer
  /\ nProc["timer"].pc = "idle"
  /\ Process("timer", 1)
  /\ UNCHANGED <<pipelineVars, advisorVars, lifecycleVars, monitorVars,
                 nQueued, nTimer>>

\* sendNotification answers (it catches its own errors) and the loop of
\* invocation i moves to the next priority.
NotificationSent(i) ==
  /\ nProc[i].pc = "sending"
  /\ Process(i, nProc[i].idx + 1)
  /\ UNCHANGED <<pipelineVars, advisorVars, lifecycleVars, monitorVars,
                 nQueued, nTimer>>

\* cleanup(): the timer is cleared and processNotificationQueue is called
\* once, up to its first await.
Cleanup ==
  /\ nProc["cleanup"].pc = "idle"
  /\ nTimer' = FALSE
  /\ Process("cleanup", 1)
  /\ UNCHANGED <<pipelineVars, advisorVars, lifecycleVars, monitorVars, nQueued>>

NextNotify ==
  \/ NotifyInitialize
  \/ \E priority \in Priorities : QueueNotification(priority)
  \/ NotifyTick
  \/ \E i \in Invocations : NotificationSent(i)
  \/ Cleanup

SpecNotify == Init /\ [][NextNotify]_vars

\* ------------------------------------- overlapping new-block handlers
\* The provider calls handleNewBlock for every block and does not wait for
\* the promise of the previous call: an invocation can start while another
\* awaits a receipt or saveTransaction.
OverlapHandlers == 1..(NumBlockHandlers + 1)

InitBlocks ==
  /\ InitCore
  /\ InitBlockHandlers(OverlapHandlers)
  /\ riskLimits = DefaultRiskLimits

\* One price-update handler whose collaborators all answer, and the block
\* handlers of OverlapHandlers.
NextBlocks ==
  \/ \E t \in Solo, o \in Offered : HandlePriceUpdate(t, o)
  \/ \E t \in Solo : RiskReturn(t, TRUE, FALSE, "none")
  \/ \E t \in Solo : ValidateReturn(t, TRUE)
  \/ \E t \in Solo : Register(t)
  \/ \E t \in Solo : NonceReturn(t, TRUE)
  \/ \E t \in Solo : SendReturn(t, TRUE)
  \/ \E t \in Solo : SaveTxReturn(t, TRUE)
  \/ \E t \in Solo, expired \in BOOLEAN : Poll(t, expired)
  \/ \E t \in Solo : SaveTradeReturn(t, TRUE)
  \/ \E t \in Solo : FailSaveReturn(t, TRUE)
  \/ \E t \in Solo : EngSaveReturn(t, TRUE)
  \/ \E b \in OverlapHandlers : HandleNewBlock(b)
  \/ \E b \in OverlapHandlers : ReceiptReturn(b)
  \/ \E b \in OverlapHandlers, ok \in BOOLEAN : ReceiptSaved(b, ok)
  \/ \E h \in Hashes, ok \in BOOLEAN : Mine(h, ok)

SpecBlocks == InitBlocks /\ [][NextBlocks]_vars

\* --------------------------------------------- PriceMonitoringService
\* start() sets isRunning, awaits the initial collectPrices and then installs
\* the interval timer; stop() clears isRunning and the timer updateInterval
\* refers to, without awaiting anything.
MaxTimers == 3

\* The handle setInterval returns: a timer that is not installed yet.
NewTimer == CHOOSE id \in 1..MaxTimers : id \notin pmTimers

\* start() called by c, up to its await of collectPrices.
MonitorStart(c) ==
  /\ pmStart[c] = "idle"
  /\ ~pmRunning
  /\ pmRunning' = TRUE
  /\ pmStart' = [pmStart EXCEPT ![c] = "collecting"]
  /\ UNCHANGED <<pipelineVars, advisorVars, lifecycleVars, notifyVars,
                 pmInterval, pmTimers, pmLastTick>>

\* collectPrices answers (it catches its own errors) and start() installs the
\* timer, whatever happened to isRunning and updateInterval in the meantime.
CollectReturn(c) ==
  /\ pmStart[c] = "collecting"
  /\ Cardinality(pmTimers) < MaxTimers
  /\ pmInterval' = NewTimer
  /\ pmTimers' = pmTimers \cup {NewTimer}
  /\ pmStart' = [pmStart EXCEPT ![c] = "idle"]
  /\ UNCHANGED <<pipelineVars, advisorVars, lifecycleVars, notifyVars,
                 pmRunning, pmLastTick>>

\* stop(): isRunning is cleared, and so is the timer updateInterval refers to.
MonitorStop ==
  /\ pmRunning
  /\ pmRunning' = FALSE
  /\ pmTimers' = pmTimers \ {pmInterval}
  /\ pmInterval' = 0
  /\ UNCHANGED <<pipelineVars, advisorVars, lifecycleVars, notifyVars,
                 pmStart, pmLastTick>>

\* An installed timer fires and its callback collects the prices.
MonitorTick(id) ==
  /\ id \in pmTimers
  /\ pmLastTick' = id
  /\ UNCHANGED <<pipelineVars, advisorVars, lifecycleVars, notifyVars,
                 pmRunning, pmInterval, pmTimers, pmStart>>

NextMonitor ==
  \/ \E c \in StartCalls : MonitorStart(c)
  \/ \E c \in StartCalls : CollectReturn(c)
  \/ MonitorStop
  \/ \E id \in 1..MaxTimers : MonitorTick(id)

SpecMonitor == Init /\ [][NextMonitor]_vars

TypeOK ==
  /\ pc \in [Trades -> {"idle", "risk", "dropped", "rejected", "validating", "validated", "nonce", "sending",
                        "saving", "wait", "completing", "failing", "engSaving", "done"}]
  /\ engActive \subseteq Trades
  /\ tesActive \subseteq Trades
  /\ nonceCache \in {NoNonce} \cup 0..(2 * NumTrades + 1)

\* ============================================================== claims
Buy(t) == Hash(t, "buy")
Sell(t) == Hash(t, "sell")

\* The coordinator of t has left executeArbitrageTrade's try block through
\* the catch block.
InCatch(t) == pc[t] \in {"failing", "engSaving", "done"} /\ trade[t].error # "none"

\* C1: for the wallet's account, no two transactions in flight at the same
\* time (sent to the network, not yet included in a block) carry the same nonce.
C1_NoSharedNonceInFlight ==
  \A h1, h2 \in Hashes :
    (h1 # h2 /\ chain[h1] = "mempool" /\ chain[h2] = "mempool")
      => txNonce[h1] # txNonce[h2]

\* C2: the nonces handed out and not yet included in a block are exactly the
\* nonces from the next one the network expects up to the allocator's next
\* nonce: a nonce whose transaction was abandoned before being sent has been
\* given back.
Outstanding ==
  {h \in Hashes : chain[h] = "mempool" \/ (chain[h] = "unsent" /\ pc[h[1]] = "sending" /\ leg[h[1]] = h[2])}
C2_OutstandingNoncesContiguous ==
  nonceCache # NoNonce =>
    {txNonce[h] : h \in Outstanding} = Cardinality(Mined)..(nonceCache - 1)

\* C3: at every instant at most one trade is active per token pair, in the
\* engine's registry and in the coordinator's.
OnePerPair(active) ==
  \A a, b \in active : a # b => trade[a].tokenPair # trade[b].tokenPair
C3_OneActiveTradePerPair ==
  /\ OnePerPair({t \in engActive : trade[t].status \in {"pending", "executing"}})
  /\ OnePerPair(tesActive)

\* C4: the number of admitted trades that have not reached a terminal status
\* never exceeds maxConcurrentTrades.
C4_AtMostMaxConcurrent ==
  Cardinality({t \in engActive : trade[t].status \in {"pending", "executing"}})
    <= maxConcurrentTrades

\* C5: a trade whose status is 'completed' has had its buy and its sell
\* transaction sent, included successfully, and seen confirmed by the
\* coordinator.
C5_CompletedImpliesBothConfirmed ==
  \A t \in Trades :
    trade[t].status = "completed" =>
      /\ chain[Buy(t)] = "success" /\ tesPending[Buy(t)] = "confirmed"
      /\ chain[Sell(t)] = "success" /\ tesPending[Sell(t)] = "confirmed"
C5_Witness ==
  \E t \in Trades : trade[t].status = "completed" /\ result[t] = "success"

\* C6: the row stored for a trade that failed in its sell leg, after the buy
\* was confirmed, carries the hash of the buy transaction, and that buy is
\* confirmed.
C6_BuyHashRetained ==
  \A t \in Trades :
    (db[t].status = "failed" /\ leg[t] = "sell" /\ InCatch(t)) =>
      /\ chain[Buy(t)] = "success"
      /\ db[t].buy_transaction_hash = Buy(t)

\* C7: when the sell leg is reported failed after the buy was confirmed, once
\* executeArbitrageTrade has returned, exactly one critical notification has
\* been emitted for the trade.
C7_CriticalExactlyOnce ==
  \A t \in Trades :
    (result[t] = "failed" /\ leg[t] = "sell"
       /\ trade[t].error \in {"SELL_EXECUTION_FAILED", "TRANSACTION_FAILED"})
      => notifs[t].critical = 1

\* C8: a trade failed at the buy stage holds no position: its buy transaction
\* is not confirmed (and, this being an invariant, never becomes so).
C8_FailedBuyNeverConfirms ==
  \A t \in Trades :
    (InCatch(t) /\ leg[t] = "buy") => chain[Buy(t)] # "success"

\* C9: once the coordinator has seen the buy confirmed, no cancelTrade call
\* succeeds: no step marks the trade cancelled or makes cancelTrade return true.
C9_NoCancelAfterBuyConfirmed ==
  [][\A t \in Trades :
       tesPending[Buy(t)] = "confirmed" =>
         /\ (trade'[t].status = "cancelled" => trade[t].status = "cancelled")
         /\ (cancelResult'[t] = "true" => cancelResult[t] = "true")]_vars

\* C10: the sell leg of a trade is started (its nonce taken, its transaction
\* sent) only when the coordinator has seen the buy confirmed and the buy was
\* included successfully.
C10_SellOnlyAfterBuyConfirmed ==
  \A t \in Trades :
    (leg[t] = "sell" \/ txNonce[Sell(t)] # NoNonce \/ chain[Sell(t)] # "unsent") =>
      /\ tesPending[Buy(t)] = "confirmed"
      /\ chain[Buy(t)] = "success"
C10_Witness ==
  \E t \in Trades : chain[Sell(t)] = "mempool" /\ pc[t] = "saving"

\* C11: an opportunity the risk gate rejected has no trade: no Trade object,
\* no entry in either registry, no stored row, no collaborator called, no
\* nonce taken and no transaction sent.
C11_RejectionCreatesNoTrade ==
  \A t \in Trades :
    pc[t] = "rejected" =>
      /\ trade[t].status = "none" /\ trade[t].tradeSize = 0
      /\ t \notin engActive /\ t \notin tesActive
      /\ db[t].status = "none"
      /\ calls[t] = <<>>
      /\ \A l \in Legs : chain[Hash(t, l)] = "unsent" /\ txNonce[Hash(t, l)] = NoNonce
C11_Witness ==
  \E t \in Trades :
    /\ pc[t] = "rejected"
    /\ ~checkPositionSizeLimit(opportunity[t], riskLimits)

\* C12: two consecutive evaluations of the same opportunity against the same
\* daily loss give the same answer.
C12_GateIdempotent ==
  [][(/\ lastEval.decision # "none"
      /\ lastEval'.opportunity = lastEval.opportunity
      /\ lastEval'.dailyLoss = lastEval.dailyLoss)
       => lastEval'.decision = lastEval.decision]_vars

\* C13: an opportunity whose composite severity is rated high or critical is
\* rejected, whatever the four hard checks say.
HardChecksPass(o, loss) ==
  /\ checkDailyLossLimit(o, riskLimits, loss)
  /\ checkPositionSizeLimit(o, riskLimits)
  /\ checkCorrelationLimit(o, riskLimits)
  /\ checkLiquidityRequirement(o, riskLimits)
C13_HighSeverityRejected ==
  (/\ lastEval.decision # "none"
   /\ riskLevel(lastEval.opportunity, riskLimits) \in {"high", "critical"})
    => lastEval.decision = "reject"
C13_Witness ==
  /\ lastEval.decision = "reject"
  /\ riskLevel(lastEval.opportunity, riskLimits) = "high"
  /\ overallRisk(lastEval.opportunity, riskLimits) > 600
  /\ HardChecksPass(lastEval.opportunity, lastEval.dailyLoss)

\* C14: the gate accepts no opportunity once the losses realized today, as
\* the completed trades record them, have reached maxDailyLoss, nor when
\* adding 10% of the opportunity's trade size to them would exceed it.
RECURSIVE RealizedLoss(_)
RealizedLoss(S) ==
  IF S = {} THEN 0
  ELSE LET t == CHOOSE x \in S : TRUE
       IN (IF trade[t].status = "completed" /\ trade[t].actualProfit < 0
             THEN 0 - trade[t].actualProfit ELSE 0) + RealizedLoss(S \ {t})
C14_NoAcceptAtLossCeiling ==
  [][\A t \in Trades :
       (pc[t] = "risk" /\ pc'[t] \notin {"risk", "rejected"}) =>
         /\ RealizedLoss(Trades) < riskLimits.maxDailyLoss
         /\ RealizedLoss(Trades) * 10 + opportunity[t].optimalTradeSize
              <= riskLimits.maxDailyLoss * 10]_vars

\* C15: a storage error is not a trade failure: when the coordinator resumes
\* from saving a trade it has marked completed, whatever the outcome of the
\* save, the trade is still completed and the result is a success.
C15_StorageErrorKeepsCompleted ==
  [][\A t \in Trades :
       (pc[t] = "completing" /\ pc'[t] # "completing") =>
         /\ trade'[t].status = "completed"
         /\ result'[t] = "success"]_vars

\* C16: a trade's failure leaves the engine able to admit later
\* opportunities: once the price-update handler that carried the trade has
\* returned, the trade no longer occupies the engine's registry (where it
\* blocks every later opportunity on its pair).
C16_FinishedHandlerFreesEngine ==
  \A t \in Trades : pc[t] = "done" => t \notin engActive

\* C17: a revert and a confirmation timeout both reach the caller of
\* executeArbitrageTrade as a failed result, each under its own kind; the kind
\* 'failed transaction' is given only for a transaction that reverted.
Returned(t) == pc[t] \in {"engSaving", "done"}
C17_RevertAndTimeoutSurfaced ==
  \A t \in Trades :
    /\ (Returned(t) /\ trade[t].error = "TRANSACTION_FAILED") =>
         (result[t] = "failed" /\ chain[Hash(t, leg[t])] = "reverted")
    /\ (Returned(t) /\ trade[t].error = "CONFIRMATION_TIMEOUT") =>
         result[t] = "failed"

\* C18: every trade execution that has started ends (executeArbitrageTrade
\* returns or rejects), even when an external call never answers.
C18_EveryExecutionEnds ==
  \A t \in Trades : (trade[t].status # "none") ~> (result[t] # "none")

\* C19: in the call log of every coordinator the gas advisor is asked after
\* the MEV advisor, a nonce is taken only after both advisors have been asked,
\* and a transaction is sent only right after its nonce was taken; every
\* nonce taken and every transaction sent is in the log.
CallsInOrder(log) ==
  \A i \in 1..Len(log) :
    /\ log[i] = "gas" => \E j \in 1..(i - 1) : log[j] = "mev"
    /\ log[i] = "nonce" =>
         \E j, k \in 1..(i - 1) : j < k /\ log[j] = "mev" /\ log[k] = "gas"
    /\ log[i] = "send" => (i > 1 /\ log[i - 1] = "nonce")
Count(log, c) == Cardinality({i \in 1..Len(log) : log[i] = c})
ValidationCodes ==
  FieldDefects \cup {"DUPLICATE_TRADE", "INSUFFICIENT_BALANCE", "DUPLICATE_PAIR_TRADE"}
C25_RecommendedGasPrice ==
  gasAdvice # NoAdvice =>
    LET p == gasAdvice.observed
        c == gasAdvice.congestion
    IN /\ gasAdvice.gasPrice * 10 =
            (IF c > 80 THEN p * 12 ELSE IF c > 60 THEN p * 11 ELSE IF c < 30 THEN p * 9 ELSE p * 10)
       /\ gasAdvice.gasPrice * 10 >= p * 8
       /\ gasAdvice.gasPrice * 10 <= p * 15

\* C26: the gas price the gas advisor recommends is never above the ceiling of
\* maxGasPrice gwei, and neither is the gas price of a leg, as the coordinator
\* prepares it and as the wallet submits it.
C26_GasPriceWithinCeiling ==
  /\ gasAdvice # NoAdvice => gasAdvice.gasPrice <= maxGasPrice
  /\ ~AboveCeiling(txGasPrice.prepared)
  /\ ~AboveCeiling(txGasPrice.submitted)

\* C27: the gas limit optimizeForTrade returns is never above maxGasLimit,
\* computed from the trade or taken from the cache.
C27_GasLimitWithinMaximum ==
  gasAdvice # NoAdvice => gasAdvice.gasLimit <= maxGasLimit

\* C21: the replacement cancelTransaction sends for a pending transaction
\* carries the nonce of the original, a strictly higher gas price, and the
\* null address as its destination.
C21_ReplacementSameNonceHigherGasNullRecipient ==
  (cancellation.called /\ cancellation.replacement # NoReplacement) =>
    /\ cancellation.replacement.nonce = cancellation.original.nonce
    /\ cancellation.replacement.gasPrice > cancellation.original.gasPrice
    /\ cancellation.replacement.to = "null"

\* C28: the strategies applyProtection returns depend on the level alone:
\* private mempool, bundling and timing randomization for high; gas price
\* and slippage protection for medium; nothing beyond the standard protection
\* for low.
C28_StrategiesFunctionOfLevel ==
  mevResult.called =>
    /\ mevResult.riskLevel = "high" =>
         mevResult.strategies = {"private_mempool", "bundle_transactions", "timing_randomization"}
    /\ mevResult.riskLevel = "medium" =>
         mevResult.strategies = {"gas_price_manipulation", "slippage_protection"}
    /\ mevResult.riskLevel = "low" =>
         mevResult.strategies \subseteq {"standard_protection"}

\* C24: of the pairs of a price update, one whose spread is below the
\* profit threshold yields no candidate and no trade, and one whose spread
\* exceeds the threshold is among the candidates of the pass.
OfPair(opps, i) == {k \in DOMAIN opps : opps[k].tokenPair = PassPairs[i]}
C24_ThresholdSeparatesCandidates ==
  \A i \in DOMAIN prices :
    prices[i] # NoQuote =>
      /\ profitPercentage(prices[i]) < profitThreshold =>
           OfPair(profitable, i) = {} /\ OfPair(admitted, i) = {}
      /\ profitPercentage(prices[i]) > profitThreshold => OfPair(profitable, i) # {}
C24_Witness ==
  /\ passPc = "trade"
  /\ \E i \in DOMAIN prices : prices[i] # NoQuote /\ profitPercentage(prices[i]) = 10
  /\ \E i \in DOMAIN prices :
       /\ prices[i] # NoQuote
       /\ profitPercentage(prices[i]) = 60
       /\ OfPair(admitted, i) # {}

\* C23: the trades of a pass are created in non-increasing order of score,
\* and when the loop of the pass ends no candidate that the engine would
\* accept is left without a trade while fewer than maxConcurrentTrades
\* trades are active.
Admissible(o, active) ==
  /\ \A p \in active : p[1] # o.tokenPair[1]
  /\ o.validates
  /\ o.mevLevel # "high"
  /\ o.gasCostPct <= 50
LoopEnds ==
  passPc = "loop" /\ (queue = <<>> \/ Cardinality(passActive) >= maxConcurrentTrades)
C23_RankedAdmissionFillsFreeSlots ==
  /\ \A i, j \in DOMAIN admitted : i < j => Score(admitted[i]) >= Score(admitted[j])
  /\ LoopEnds =>
       \A k \in DOMAIN profitable :
         (/\ \A a \in DOMAIN admitted : admitted[a] # profitable[k]
          /\ Cardinality(passActive) < maxConcurrentTrades)
           => ~Admissible(profitable[k], passActive)

\* C22: an opportunity the loop takes up after its time to live has passed
\* gets no trade and is counted in opportunitiesMissed.
C22_ExpiredDiscardedAndCounted ==
  [][(/\ passPc = "loop" /\ ttlPassed /\ queue # <<>>
      /\ Cardinality(passActive) < maxConcurrentTrades
      /\ queue' = Tail(queue))
       => (admitted' = admitted /\ opportunitiesMissed' = opportunitiesMissed + 1)]_vars

\* C29: whether the loop creates a trade for the opportunity it takes up
\* is decided by the pair, the risk gate, the MEV level and the gas cost
\* alone, whatever MCPService.assessRisk last answered, and an answer or a
\* failure of assessRisk changes nothing in the pass.
C29_AdmissionIgnoresAdvisor ==
  [][/\ (/\ passPc = "loop" /\ queue # <<>>
         /\ Cardinality(passActive) < maxConcurrentTrades
         /\ queue' = Tail(queue))
          => IF Admissible(Head(queue), passActive)
               THEN admitted' = Append(admitted, Head(queue)) /\ passPc' = "trade"
               ELSE admitted' = admitted /\ passPc' = "loop"
     /\ mcpAssessment' # mcpAssessment => UNCHANGED passVars]_vars
C29_Witness ==
  /\ passPc = "trade"
  /\ mcpAssessment \in {[source |-> "default", riskScore |-> 50],
                        [source |-> "api", riskScore |-> 90]}
  /\ queue # <<>>
  /\ Admissible(Head(queue), passActive \ {admitted[Len(admitted)].tokenPair})

\* C30: while the inference API is failing, detectOpportunities, whatever
\* list it is given, rejects with the message 'MCP opportunity detection
\* failed: ' followed by the cause and returns no opportunity.
C30_FailingApiRejectsDetection ==
  (detection.called /\ detection.failing) =>
    /\ detection.outcome = "rejected"
    /\ detection.opportunities = 0
    /\ detection.message =
         <<"MCP opportunity detection failed: ", detection.cause.name, ": ",
           detection.cause.message>>

\* C31: an opportunity the loop takes up is dropped as a duplicate exactly
\* when a trade on the same (base token, quote token) pair is active: one
\* that passes the risk gate, the MEV test and the gas test gets a trade
\* unless its own pair is active, whatever other pairs are being traded.
C31_DuplicateKeyedOnWholePair ==
  [][(/\ passPc = "loop" /\ queue # <<>>
      /\ Cardinality(passActive) < maxConcurrentTrades
      /\ queue' = Tail(queue)
      /\ Head(queue).validates
      /\ Head(queue).mevLevel # "high"
      /\ Head(queue).gasCostPct <= 50)
       => (admitted' = admitted <=> Head(queue).tokenPair \in passActive)]_vars

\* C32: a trade in the engine's activeTrades whose execution call has
\* answered, by returning a result or by rejecting, is eventually removed
\* from activeTrades.
C32_AnsweredTradeLeavesEngine ==
  \A t \in Trades : (t \in engActive /\ result[t] # "none") ~> (t \notin engActive)

\* C33: a confirmation the wallet has observed is not lost: whenever the
\* wallet has recorded a successful receipt for a hash and the coordinator
\* holds the hash in its pendingTransactions, the coordinator's entry says
\* confirmed, so the wait for that hash returns confirmed.
C33_ConfirmationNeverLost ==
  \A h \in Hashes :
    (wStatus[h] = "confirmed" /\ tesPending[h] # "absent") => tesPending[h] = "confirmed"

\* C34: a trade whose status is 'completed', 'failed' or 'cancelled' keeps
\* that status in every later step.
TerminalStatuses == {"completed", "failed", "cancelled"}
C34_TerminalStatusStable ==
  [][\A t \in Trades :
       trade[t].status \in TerminalStatuses => trade'[t].status = trade[t].status]_vars

\* C35: once cancelTrade has returned true for a trade, the coordinator
\* hands no further transaction of the trade to wallet.sendTransaction, and
\* when it returns true
\* every transaction of the trade that the coordinator held as pending has
\* been passed to walletService.cancelTransaction.
C35_CancelStopsSubmissions ==
  [][\A t \in Trades :
       /\ cancelResult[t] = "true" => (pc'[t] = "sending" => pc[t] = "sending")
       /\ (cancelResult[t] # "true" /\ cancelResult'[t] = "true") =>
            \A l \in Legs :
              tesPending[Hash(t, l)] = "pending" => Hash(t, l) \in cancelRequests']_vars

\* C36: while the engine is not running (before start() has succeeded, or
\* after stop() has completed) no Trade is created and no transaction is
\* handed to the wallet for sending, whatever events are delivered and
\* whatever handlers are in progress; and when stop() completes the engine's
\* active-trade set is empty.
C36_IdleEngineDoesNotTrade ==
  [][/\ (~isRunning /\ enginePc \in {"idle", "starting"}) =>
          \A t \in Trades :
            /\ trade[t].status = "none" => trade'[t].status = "none"
            /\ pc'[t] = "sending" => pc[t] = "sending"
     /\ (isRunning /\ ~isRunning') => engActive' = {}]_vars

\* C40: every trade id in the coordinator's active set is in the engine's
\* active set, in every state and so after cancelAllActiveTrades.
C40_CoordinatorActiveWithinEngine == tesActive \subseteq engActive

\* C38: no queued notification is dropped unsent: a notification leaves the
\* queue only by being passed to sendNotification, it is passed once, and
\* notifications of one priority are passed in the order they were queued;
\* this includes the notifications still queued when cleanup() is called.
InQueue(n, q) == \E k \in 1..Len(q[n.priority]) : q[n.priority][k] = n
InLog(n, log) == \E k \in 1..Len(log) : log[k] = n
C38_NoNotificationDropped ==
  [][/\ \A p \in Priorities : \A k \in 1..Len(nQueue[p]) :
          InQueue(nQueue[p][k], nQueue') \/ InLog(nQueue[p][k], nSent')
     /\ \A j, k \in 1..Len(nSent') :
          /\ (j # k) => nSent'[j] # nSent'[k]
          /\ (j < k /\ nSent'[j].priority = nSent'[k].priority) => nSent'[j].id < nSent'[k].id]_vars

\* C37: for each transaction hash the wallet emits at most one terminal event
\* (transactionConfirmed or transactionFailed), also when two new-block
\* handlers overlap.
C37_OneTerminalEventPerHash == \A h \in Hashes : emitted[h] <= 1

\* C39: once stop() has returned and every start() in progress has finished,
\* no periodic timer of the price monitor remains: isRunning = false implies
\* that no interval is active, for every interleaving of start() and stop().
C39_StoppedMonitorHasNoTimer ==
  (~pmRunning /\ \A c \in StartCalls : pmStart[c] = "idle") => pmTimers = {}

====
